---- MODULE Spec2Model ----
(***************************************************************************)
(* A model of the nodejs-mobile-react-native bridge layer:                 *)
(*   - the JNI attachment cache of android/src/main/cpp/native-lib.cpp     *)
(*     (SpecPool),                                                         *)
(*   - the readiness flag, pause/resume and the pause locks of the host    *)
(*     module (Kotlin) and rn-bridge/index.js (SpecLifecycle),             *)
(*   - the event channel of rn-bridge/index.js and of                      *)
(*     src/RNNodeJsMobileModule.ts (SpecChannel, SpecHostChannel),         *)
(*   - the system channel under a host that tags its pauses (SpecPause),   *)
(*   - the message codec of src/MessageCodec.ts (SpecCodec) and the        *)
(*     post()/send() calls that use it (SpecPost),                         *)
(*   - the channel registry of rn-bridge/index.js (SpecRegistry),          *)
(*   - all of the bridge together (Spec).                                  *)
(***************************************************************************)
EXTENDS Integers, Sequences, FiniteSets, TLC

(***************************************************************************)
(* Bounds of the model.                                                    *)
(***************************************************************************)
\* native-lib.cpp:24 sets the limit to 32; the model scales it down so that
\* more threads than the limit can be interleaved exhaustively.
MAX_ATTACHED_THREADS == 2
\* threads that cross the boundary through rcv_message
NumThreads == 3

\* messages the host application posts to the embedded runtime
MaxHostSends == 2
\* messages the embedded application posts to the host
MaxNodeSends == 2
\* pause/resume messages the host forwards
MaxLifecycle == 2
\* listeners the embedded application may register for "pause"
MaxPauseListeners == 2
\* release() calls one listener may make on one lock
MaxReleaseCalls == 2
\* listeners the host application may add to its EventChannel
MaxHostListeners == 2
\* remove() calls on one host subscription
MaxRemoveCalls == 2
\* channels constructed and registered after the two of the module's own
MaxRegistrations == 2
MaxInstances == 2

Threads == 1..NumThreads
\* The threads the VM already knows when the run starts (attached by the
\* host, not by the cache): none, or the last one.
ExternalChoices == {{}, {NumThreads}}

VARIABLES
    \* ---- native-lib.cpp ----
    runtime,                 \* startNodeWithArguments: "notStarted", "running", "tearing", "exited"
    cached_jvm,              \* cached_jvm != nullptr
    cached_class,            \* cached_class && cached_method
    attached_thread_count,
    peak_attached_threads,
    tls_env,                 \* per thread: 0 (nullptr) or the thread's JNIEnv
    tls_attached,
    vm_attached,             \* the VM's own record: is the thread attached
    cleanup_marked,          \* pthread_setspecific(cleanup_key, 1) was done
    tpc,                     \* per thread: position inside rcv_message / get_jni_env
    current_count,           \* local of get_jni_env
    current_peak,            \* local of get_jni_env
    ret,                     \* outcome of the thread's last rcv_message
    calls,                   \* rcv_message calls made by the thread: "none", "once", "many"
    external,                \* the threads attached by the host before the run
    max_count_seen,          \* history: the largest value attached_thread_count has held
    \* ---- host module (Kotlin) ----
    hostKind,                \* "expo" (coroutine hand-off) or "legacy" (thread hand-off)
    instance,                \* companion `instance`: the module instance stored, or NoInstance
    startedNodeAlready,
    nodeStarts,              \* the startNodeWithArguments calls launched, in order
    nodeIsReadyForAppEvents,
    appState,                \* "foreground" or "background"
    lifecycleSent,           \* pause/resume messages forwarded so far
    handoff,                 \* sendEvent calls scheduled by sendMessageBackToReact
    sendEventLog,            \* sendEvent calls made, in order
    hostReceived,            \* sendMessageToApplication invocations
    \* ---- transport ----
    toNode,                  \* per channel: texts queued for bridgeListener
    toHost,                  \* texts on their way to sendMessageToApplication
    sentToNode,              \* texts the host application has sent
    sentToHost,              \* texts the embedded application has sent
    \* ---- rn-bridge/index.js ----
    nodeLoad,                \* position in the module's top-level code, 0..3
    created,                 \* the channel objects constructed so far, in order
    channels,                \* the registry: channel name -> channel object
    immediates,              \* the setImmediate queue
    pauseListeners,          \* listeners registered for "pause" on the system channel
    locks,                   \* the SystemEventLock objects created so far
    nodeLog,                 \* emitLocal calls made, in order
    nodeDelivered,           \* bridgeListener invocations
    nodeThrown,              \* errors that left bridgeListener
    nodeErrors,              \* console.error calls of bridgeListener: the names not found
    \* ---- RNNodeJsMobileModule.ts ----
    listenerCount,           \* EventChannel.#listenerCount
    subscription,            \* EventChannel.#subscription != null
    hostListeners,           \* per handle: "unused", "added" or "removed"
    removeCalls,             \* per handle: remove() calls made
    activations,             \* native subscriptions created
    deactivations,           \* native subscriptions removed
    hostProcessed,           \* #processData invocations
    hostLog,                 \* emit calls made, in order
    hostWarned,              \* messages dropped by #processData
    \* ---- MessageCodec and the callers of post()/send() ----
    call,                    \* the arguments of the codec calls under way, or NoCall
    encoded,                 \* what serialize(event, ...payload) returned or threw
    decoded,                 \* what deserialize made of the encoded text
    parsed,                  \* what deserialize(message) returned or threw
    hostEncoded,             \* what the host's serialize(event, ...payload) returned or threw
    hostParsed,              \* what the host's deserialize(message) returned or threw
    hostDecoded,             \* what the host's deserialize made of the embedded side's text
    nodeDecoded,             \* what the embedded side's deserialize made of the host's text
    raised,                  \* what the last post()/send() threw to its caller
    \* ---- native-lib.cpp: startNodeWithArguments, the argument marshaling ----
    string_refs,             \* the arguments as GetStringUTFChars returned them
    marshal_pc,              \* position in the marshaling code
    arg_i,                   \* the loop variable i
    c_arguments_size,        \* byte size computed by the first loop
    args_buffer,             \* the calloc'ed buffer, byte at offset k is args_buffer[k + 1]
    argv,                    \* argv[i] as an offset into args_buffer
    current_args_position,   \* offset of the next argument's copy
    node_args                \* what callintoNode(argc, argv) was handed

poolVars == <<runtime, cached_jvm, cached_class, attached_thread_count,
              peak_attached_threads, tls_env, tls_attached, vm_attached,
              cleanup_marked, tpc, current_count, current_peak, ret, calls,
              external, max_count_seen>>

hostVars == <<hostKind, instance, startedNodeAlready, nodeStarts, nodeIsReadyForAppEvents,
              appState, lifecycleSent, handoff, sendEventLog, hostReceived>>

wireVars == <<toNode, toHost, sentToNode, sentToHost>>

nodeVars == <<nodeLoad, created, channels, immediates, pauseListeners, locks, nodeLog,
              nodeDelivered, nodeThrown, nodeErrors>>

channelVars == <<listenerCount, subscription, hostListeners, removeCalls,
                 activations, deactivations, hostProcessed, hostLog, hostWarned>>

hostCodecVars == <<hostEncoded, hostParsed, hostDecoded, nodeDecoded>>

codecCallVars == <<call, encoded, decoded, parsed, hostCodecVars>>

codecVars == <<codecCallVars, raised>>

bridgeVars == <<hostVars, wireVars, nodeVars, channelVars, codecVars>>

marshalVars == <<string_refs, marshal_pc, arg_i, c_arguments_size, args_buffer, argv,
                 current_args_position, node_args>>

vars == <<poolVars, bridgeVars, marshalVars>>

(***************************************************************************)
(* native-lib.cpp: the attachment cache.                                   *)
(***************************************************************************)
PoolInit ==
    /\ runtime = "notStarted"
    /\ cached_jvm = FALSE
    /\ cached_class = FALSE
    /\ attached_thread_count = 0
    /\ peak_attached_threads = 0
    /\ tls_env = [t \in Threads |-> 0]
    /\ tls_attached = [t \in Threads |-> FALSE]
    /\ external \in ExternalChoices
    /\ vm_attached = [t \in Threads |-> t \in external]
    /\ cleanup_marked = [t \in Threads |-> FALSE]
    /\ tpc = [t \in Threads |-> "idle"]
    /\ current_count = [t \in Threads |-> 0]
    /\ current_peak = [t \in Threads |-> 0]
    /\ ret = [t \in Threads |-> "none"]
    /\ calls = [t \in Threads |-> "none"]
    /\ max_count_seen = 0

\* startNodeWithArguments up to the call into node: caches the VM and the
\* class/method references.
StartNodeWithArguments ==
    /\ UNCHANGED <<bridgeVars, marshalVars>>
    /\ runtime = "notStarted"
    /\ runtime' = "running"
    /\ cached_jvm' = TRUE
    /\ cached_class' = TRUE
    /\ UNCHANGED <<attached_thread_count, peak_attached_threads, tls_env,
                   tls_attached, vm_attached, cleanup_marked, tpc,
                   current_count, current_peak, ret, calls, external, max_count_seen>>

\* node::Start returned: the cached class/method references are released ...
TeardownClass ==
    /\ UNCHANGED <<bridgeVars, marshalVars>>
    /\ runtime = "running"
    /\ runtime' = "tearing"
    /\ cached_class' = FALSE
    /\ UNCHANGED <<cached_jvm, attached_thread_count, peak_attached_threads,
                   tls_env, tls_attached, vm_attached, cleanup_marked, tpc,
                   current_count, current_peak, ret, calls, external, max_count_seen>>

\* ... and then the cached VM pointer is cleared.
TeardownJvm ==
    /\ UNCHANGED <<bridgeVars, marshalVars>>
    /\ runtime = "tearing"
    /\ runtime' = "exited"
    /\ cached_jvm' = FALSE
    /\ UNCHANGED <<cached_class, attached_thread_count, peak_attached_threads,
                   tls_env, tls_attached, vm_attached, cleanup_marked, tpc,
                   current_count, current_peak, ret, calls, external, max_count_seen>>

\* A thread returns from rcv_message with the given outcome.
Return(t, outcome) ==
    /\ tpc' = [tpc EXCEPT ![t] = "idle"]
    /\ ret' = [ret EXCEPT ![t] = outcome]

\* rcv_message, entry: the validity check and the cleanup mark.
RcvMessage(t) ==
    /\ UNCHANGED <<bridgeVars, marshalVars>>
    /\ runtime # "notStarted"
    /\ tpc[t] = "idle"
    /\ calls' = [calls EXCEPT ![t] = IF @ = "none" THEN "once" ELSE "many"]
    /\ IF ~cached_class
         THEN /\ Return(t, "invalid")
              /\ UNCHANGED cleanup_marked
         ELSE /\ cleanup_marked' = [cleanup_marked EXCEPT ![t] = TRUE]
              /\ tpc' = [tpc EXCEPT ![t] = "tls_check"]
              /\ UNCHANGED ret
    /\ UNCHANGED <<runtime, cached_jvm, cached_class, attached_thread_count,
                   peak_attached_threads, tls_env, tls_attached, vm_attached,
                   current_count, current_peak, external, max_count_seen>>

\* A get_jni_env that never finds the thread-local handle.
HasCachedEnvNever(env) == FALSE
\* The test of line 82: if (tls_env).
HasCachedEnv(env) == env # 0

\* get_jni_env, lines 82-88: the thread-local fast path and the VM check.
GetJniEnvFast(t) ==
    /\ UNCHANGED <<bridgeVars, marshalVars>>
    /\ tpc[t] = "tls_check"
    /\ IF HasCachedEnv(tls_env[t])
         THEN /\ tpc' = [tpc EXCEPT ![t] = "call"]
              /\ UNCHANGED ret
         ELSE IF ~cached_jvm
                THEN Return(t, "no_jvm")
                ELSE /\ tpc' = [tpc EXCEPT ![t] = "get_env"]
                     /\ UNCHANGED ret
    /\ UNCHANGED <<runtime, cached_jvm, cached_class, attached_thread_count,
                   peak_attached_threads, tls_env, tls_attached, vm_attached,
                   cleanup_marked, current_count, current_peak, calls, external, max_count_seen>>

\* A GetEnv branch that records the thread as attached by the cache.
GetJniEnvGetEnvOwned(t) ==
    /\ UNCHANGED <<bridgeVars, marshalVars>>
    /\ tpc[t] = "get_env"
    /\ IF vm_attached[t]
         THEN /\ tls_env' = [tls_env EXCEPT ![t] = t]
              /\ tls_attached' = [tls_attached EXCEPT ![t] = TRUE]
              /\ tpc' = [tpc EXCEPT ![t] = "call"]
         ELSE /\ tpc' = [tpc EXCEPT ![t] = "load_count"]
              /\ UNCHANGED <<tls_env, tls_attached>>
    /\ UNCHANGED <<runtime, cached_jvm, cached_class, attached_thread_count,
                   peak_attached_threads, vm_attached, cleanup_marked,
                   current_count, current_peak, ret, calls, external, max_count_seen>>

\* get_jni_env, lines 90-98: GetEnv; an already attached thread is cached
\* but not counted.
GetJniEnvGetEnv(t) ==
    /\ UNCHANGED <<bridgeVars, marshalVars>>
    /\ tpc[t] = "get_env"
    /\ IF vm_attached[t]
         THEN /\ tls_env' = [tls_env EXCEPT ![t] = t]
              /\ tls_attached' = [tls_attached EXCEPT ![t] = FALSE]
              /\ tpc' = [tpc EXCEPT ![t] = "call"]
         ELSE /\ tpc' = [tpc EXCEPT ![t] = "load_count"]
              /\ UNCHANGED <<tls_env, tls_attached>>
    /\ UNCHANGED <<runtime, cached_jvm, cached_class, attached_thread_count,
                   peak_attached_threads, vm_attached, cleanup_marked,
                   current_count, current_peak, ret, calls, external, max_count_seen>>

\* A capacity test that is off by one.
LimitReachedLate(c) == c > MAX_ATTACHED_THREADS
\* The capacity test of line 103 on the value loaded at line 102.
LimitReached(c) == c >= MAX_ATTACHED_THREADS

\* get_jni_env, lines 102-108: load the counter and refuse at the limit (the
\* loaded value is only read by the test; line 116 overwrites the local).
GetJniEnvLimitCheck(t) ==
    /\ UNCHANGED <<bridgeVars, marshalVars>>
    /\ tpc[t] = "load_count"
    /\ IF LimitReached(attached_thread_count)
         THEN Return(t, "refused")
         ELSE /\ tpc' = [tpc EXCEPT ![t] = "attach"]
              /\ UNCHANGED ret
    /\ UNCHANGED <<runtime, cached_jvm, cached_class, attached_thread_count,
                   peak_attached_threads, tls_env, tls_attached, vm_attached,
                   cleanup_marked, current_count, current_peak, calls, external, max_count_seen>>

\* An attach step that sets the thread-local state before it tests the result.
GetJniEnvAttachEager(t) ==
    /\ UNCHANGED <<bridgeVars, marshalVars>>
    /\ tpc[t] = "attach"
    /\ tls_env' = [tls_env EXCEPT ![t] = t]
    /\ tls_attached' = [tls_attached EXCEPT ![t] = TRUE]
    /\ \/ /\ vm_attached' = [vm_attached EXCEPT ![t] = TRUE]
          /\ tpc' = [tpc EXCEPT ![t] = "fetch_add"]
          /\ UNCHANGED ret
       \/ /\ Return(t, "attach_failed")
          /\ UNCHANGED vm_attached
    /\ UNCHANGED <<runtime, cached_jvm, cached_class, attached_thread_count,
                   peak_attached_threads, cleanup_marked, current_count,
                   current_peak, calls, external, max_count_seen>>

\* get_jni_env, lines 111-113 and 136-138: AttachCurrentThread succeeds or fails.
GetJniEnvAttach(t) ==
    /\ UNCHANGED <<bridgeVars, marshalVars>>
    /\ tpc[t] = "attach"
    /\ \/ /\ vm_attached' = [vm_attached EXCEPT ![t] = TRUE]
          /\ tls_env' = [tls_env EXCEPT ![t] = t]
          /\ tls_attached' = [tls_attached EXCEPT ![t] = TRUE]
          /\ tpc' = [tpc EXCEPT ![t] = "fetch_add"]
          /\ UNCHANGED ret
       \/ /\ Return(t, "attach_failed")
          /\ UNCHANGED <<vm_attached, tls_env, tls_attached>>
    /\ UNCHANGED <<runtime, cached_jvm, cached_class, attached_thread_count,
                   peak_attached_threads, cleanup_marked, current_count,
                   current_peak, calls, external, max_count_seen>>

\* get_jni_env, line 116: attached_thread_count.fetch_add(1) + 1.
GetJniEnvFetchAdd(t) ==
    /\ UNCHANGED <<bridgeVars, marshalVars>>
    /\ tpc[t] = "fetch_add"
    /\ attached_thread_count' = attached_thread_count + 1
    /\ current_count' = [current_count EXCEPT ![t] = attached_thread_count + 1]
    /\ tpc' = [tpc EXCEPT ![t] = "load_peak"]
    /\ max_count_seen' = IF attached_thread_count + 1 > max_count_seen
                           THEN attached_thread_count + 1 ELSE max_count_seen
    /\ UNCHANGED <<runtime, cached_jvm, cached_class, peak_attached_threads,
                   tls_env, tls_attached, vm_attached, cleanup_marked,
                   current_peak, ret, calls, external>>

\* get_jni_env, line 117: peak_attached_threads.load().
GetJniEnvLoadPeak(t) ==
    /\ UNCHANGED <<bridgeVars, marshalVars>>
    /\ tpc[t] = "load_peak"
    /\ current_peak' = [current_peak EXCEPT ![t] = peak_attached_threads]
    /\ tpc' = [tpc EXCEPT ![t] = "cas"]
    /\ UNCHANGED <<runtime, cached_jvm, cached_class, attached_thread_count,
                   peak_attached_threads, tls_env, tls_attached, vm_attached,
                   cleanup_marked, current_count, ret, calls, external, max_count_seen>>

\* A store that does not compare: it always succeeds.
CompareExchangeBlind(actual, expected) == TRUE
\* compare_exchange_weak(current_peak, current_count) succeeds when the
\* counter still holds the expected value.
CompareExchange(actual, expected) == actual = expected

\* get_jni_env, lines 118-121: one turn of the compare-and-retry loop.  A
\* failed compare_exchange reloads current_peak (a spurious failure of the
\* weak form reloads the same value and changes nothing).
GetJniEnvCas(t) ==
    /\ UNCHANGED <<bridgeVars, marshalVars>>
    /\ tpc[t] = "cas"
    /\ IF current_count[t] > current_peak[t]
         THEN IF CompareExchange(peak_attached_threads, current_peak[t])
                THEN /\ peak_attached_threads' = current_count[t]
                     /\ tpc' = [tpc EXCEPT ![t] = "call"]
                     /\ UNCHANGED current_peak
                ELSE /\ current_peak' = [current_peak EXCEPT ![t] = peak_attached_threads]
                     /\ UNCHANGED <<peak_attached_threads, tpc>>
         ELSE /\ tpc' = [tpc EXCEPT ![t] = "call"]
              /\ UNCHANGED <<peak_attached_threads, current_peak>>
    /\ UNCHANGED <<runtime, cached_jvm, cached_class, attached_thread_count,
                   tls_env, tls_attached, vm_attached, cleanup_marked,
                   current_count, ret, calls, external, max_count_seen>>

\* rcv_message, lines 186-198: the call into the host dispatcher; the locals
\* of get_jni_env are dead by then.
RcvMessageCall(t) ==
    /\ UNCHANGED <<bridgeVars, marshalVars>>
    /\ tpc[t] = "call"
    /\ Return(t, "ok")
    /\ current_count' = [current_count EXCEPT ![t] = 0]
    /\ current_peak' = [current_peak EXCEPT ![t] = 0]
    /\ UNCHANGED <<runtime, cached_jvm, cached_class, attached_thread_count,
                   peak_attached_threads, tls_env, tls_attached, vm_attached,
                   cleanup_marked, calls, external, max_count_seen>>

\* The thread exits; thread_cleanup_callback runs if the thread was marked.
ThreadExit(t) ==
    /\ UNCHANGED <<bridgeVars, marshalVars>>
    /\ tpc[t] = "idle"
    /\ tpc' = [tpc EXCEPT ![t] = "exited"]
    /\ IF cleanup_marked[t]
         THEN /\ IF tls_attached[t] /\ cached_jvm
                   THEN /\ vm_attached' = [vm_attached EXCEPT ![t] = FALSE]
                        /\ attached_thread_count' = attached_thread_count - 1
                   ELSE UNCHANGED <<vm_attached, attached_thread_count>>
              /\ tls_env' = [tls_env EXCEPT ![t] = 0]
              /\ tls_attached' = [tls_attached EXCEPT ![t] = FALSE]
         ELSE UNCHANGED <<vm_attached, attached_thread_count, tls_env, tls_attached>>
    /\ UNCHANGED <<runtime, cached_jvm, cached_class, peak_attached_threads,
                   cleanup_marked, current_count, current_peak, ret, calls, external, max_count_seen>>

PoolNext ==
    \/ StartNodeWithArguments
    \/ TeardownClass
    \/ TeardownJvm
    \/ \E t \in Threads : RcvMessage(t)
    \/ \E t \in Threads : GetJniEnvFast(t)
    \/ \E t \in Threads : GetJniEnvGetEnv(t)
    \/ \E t \in Threads : GetJniEnvLimitCheck(t)
    \/ \E t \in Threads : GetJniEnvAttach(t)
    \/ \E t \in Threads : GetJniEnvFetchAdd(t)
    \/ \E t \in Threads : GetJniEnvLoadPeak(t)
    \/ \E t \in Threads : GetJniEnvCas(t)
    \/ \E t \in Threads : RcvMessageCall(t)
    \/ \E t \in Threads : ThreadExit(t)

(***************************************************************************)
(* Wire texts.  A text is a sequence of tokens: punctuation, a quoted      *)
(* string literal, a number literal or a bare word.  JSON.stringify prints *)
(* a value as tokens and JSON.parse reads tokens back by recursive         *)
(* descent; the system channel's texts are bare words separated by "|".    *)
(***************************************************************************)
P(c) == [k |-> "p", v |-> c]
S(s) == [k |-> "s", v |-> s]
N(n) == [k |-> "n", v |-> n]
W(w) == [k |-> "w", v |-> w]

\* JavaScript values
JStr(s) == [t |-> "str", s |-> s]
JNum(n) == [t |-> "num", s |-> n]
JBool(b) == [t |-> "bool", s |-> b]
JNull == [t |-> "null"]
JArr(items) == [t |-> "arr", items |-> items]
JObj(fields) == [t |-> "obj", fields |-> fields]
\* a value JSON.stringify throws on (a cyclic structure)
JCyclic == [t |-> "cyclic"]
\* a value that is not a string, handed to deserialize
NotAText == <<[k |-> "x", v |-> "number"]>>

RECURSIVE CanStringify(_)
RECURSIVE CanStringifyAll(_)
CanStringifyAll(items) ==
    IF items = <<>> THEN TRUE
    ELSE CanStringify(Head(items)) /\ CanStringifyAll(Tail(items))
CanStringify(v) ==
    CASE v.t = "cyclic" -> FALSE
      [] v.t = "arr" -> CanStringifyAll(v.items)
      [] v.t = "obj" -> CanStringifyAll([i \in 1..Len(v.fields) |-> v.fields[i].val])
      [] OTHER -> TRUE

RECURSIVE Stringify(_)
RECURSIVE StringifyItems(_)
RECURSIVE StringifyFields(_)
StringifyItems(items) ==
    IF items = <<>> THEN <<>>
    ELSE IF Len(items) = 1 THEN Stringify(items[1])
    ELSE Stringify(items[1]) \o <<P(",")>> \o StringifyItems(Tail(items))
StringifyFields(fields) ==
    IF fields = <<>> THEN <<>>
    ELSE LET one == <<S(fields[1].key), P(":")>> \o Stringify(fields[1].val)
         IN  IF Len(fields) = 1 THEN one
             ELSE one \o <<P(",")>> \o StringifyFields(Tail(fields))
\* JSON.stringify of a value it accepts
Stringify(v) ==
    CASE v.t = "str" -> <<S(v.s)>>
      [] v.t = "num" -> <<N(v.s)>>
      [] v.t = "bool" -> <<W(v.s)>>
      [] v.t = "null" -> <<W("null")>>
      [] v.t = "arr" -> <<P("[")>> \o StringifyItems(v.items) \o <<P("]")>>
      [] v.t = "obj" -> <<P("{")>> \o StringifyFields(v.fields) \o <<P("}")>>

ParseFail == [ok |-> FALSE]
ParseOk(v, next) == [ok |-> TRUE, val |-> v, next |-> next]

RECURSIVE ParseValue(_, _)
RECURSIVE ParseElements(_, _, _)
RECURSIVE ParseMembers(_, _, _)
\* the elements of an array after "[" or ","
ParseElements(toks, i, acc) ==
    LET r == ParseValue(toks, i) IN
    IF ~r.ok \/ r.next > Len(toks) THEN ParseFail
    ELSE IF toks[r.next] = P(",") THEN ParseElements(toks, r.next + 1, Append(acc, r.val))
    ELSE IF toks[r.next] = P("]") THEN ParseOk(JArr(Append(acc, r.val)), r.next + 1)
    ELSE ParseFail
\* the members of an object after "{" or ","
ParseMembers(toks, i, acc) ==
    IF i + 1 > Len(toks) \/ toks[i].k # "s" \/ toks[i + 1] # P(":") THEN ParseFail
    ELSE LET r == ParseValue(toks, i + 2) IN
         IF ~r.ok \/ r.next > Len(toks) THEN ParseFail
         ELSE LET one == [key |-> toks[i].v, val |-> r.val] IN
              IF toks[r.next] = P(",") THEN ParseMembers(toks, r.next + 1, Append(acc, one))
              ELSE IF toks[r.next] = P("}") THEN ParseOk(JObj(Append(acc, one)), r.next + 1)
              ELSE ParseFail
ParseValue(toks, i) ==
    IF i > Len(toks) THEN ParseFail
    ELSE LET tok == toks[i] IN
         CASE tok.k = "s" -> ParseOk(JStr(tok.v), i + 1)
           [] tok.k = "n" -> ParseOk(JNum(tok.v), i + 1)
           [] tok.k = "w" ->
                IF tok.v = "null" THEN ParseOk(JNull, i + 1)
                ELSE IF tok.v \in {"true", "false"} THEN ParseOk(JBool(tok.v), i + 1)
                ELSE ParseFail
           [] tok = P("[") ->
                IF i + 1 <= Len(toks) /\ toks[i + 1] = P("]")
                  THEN ParseOk(JArr(<<>>), i + 2)
                  ELSE ParseElements(toks, i + 1, <<>>)
           [] tok = P("{") ->
                IF i + 1 <= Len(toks) /\ toks[i + 1] = P("}")
                  THEN ParseOk(JObj(<<>>), i + 2)
                  ELSE ParseMembers(toks, i + 1, <<>>)
           [] OTHER -> ParseFail

\* JSON.parse: one value and nothing after it
JSONParse(toks) ==
    LET r == ParseValue(toks, 1) IN
    IF r.ok /\ r.next = Len(toks) + 1 THEN r ELSE ParseFail

\* `key in obj` and obj[key] of a parsed object (the last duplicate wins)
HasKey(v, key) ==
    v.t = "obj" /\ \E i \in 1..Len(v.fields) : v.fields[i].key = key
GetKey(v, key) ==
    LET last == CHOOSE i \in 1..Len(v.fields) :
                    /\ v.fields[i].key = key
                    /\ \A j \in (i + 1)..Len(v.fields) : v.fields[j].key # key
    IN  v.fields[last].val

\* A constructor that drops its second argument.
CodecErrorNoCause(kind, wrapped) ==
    [ok |-> FALSE, name |-> "MessageCodecError", err |-> kind, originalError |-> FALSE]

\* new MessageCodecError(message, originalError)
CodecError(kind, wrapped) ==
    [ok |-> FALSE, name |-> "MessageCodecError", err |-> kind, originalError |-> wrapped]
\* the SyntaxError JSON.parse throws
SyntaxError == [ok |-> FALSE, name |-> "SyntaxError"]

\* A catch clause that wraps whatever was thrown.
CatchWrapAll(error) == CodecError("ParseFailure", TRUE)

\* The catch clause of deserialize: a MessageCodecError is thrown again, any
\* other error is wrapped.
Catch(error) ==
    IF error.name = "MessageCodecError" THEN error ELSE CodecError("ParseFailure", TRUE)

\* A serialize that builds the envelope as { payload, event }.
serializePayloadFirst(event, payload) ==
    IF event.t # "str" \/ event.s = ""
      THEN CodecError("EmptyEventName", FALSE)
      ELSE IF ~CanStringifyAll(payload)
             THEN CodecError("SerializationFailure", TRUE)
             ELSE [ok |-> TRUE,
                   text |-> Stringify(JObj(<<[key |-> "payload", val |-> JArr(payload)],
                                             [key |-> "event", val |-> event]>>))]

\* A serialize that tests only the type of the event name.
serializeAnyString(event, payload) ==
    IF event.t # "str"
      THEN CodecError("EmptyEventName", FALSE)
      ELSE IF ~CanStringifyAll(payload)
             THEN CodecError("SerializationFailure", TRUE)
             ELSE [ok |-> TRUE,
                   text |-> Stringify(JObj(<<[key |-> "event", val |-> event],
                                             [key |-> "payload", val |-> JArr(payload)]>>))]

\* A serialize declared without the rest parameter: `payload` is the second
\* argument alone.
serializeNoRest(event, payload) ==
    IF event.t # "str" \/ event.s = ""
      THEN CodecError("EmptyEventName", FALSE)
      ELSE IF ~CanStringifyAll(payload)
             THEN CodecError("SerializationFailure", TRUE)
             ELSE [ok |-> TRUE,
                   text |-> Stringify(JObj(<<[key |-> "event", val |-> event],
                                             [key |-> "payload",
                                              val |-> IF payload = <<>> THEN JArr(<<>>)
                                                      ELSE payload[1]]>>))]

\* MessageCodec.serialize(event, ...payload)
serialize(event, payload) ==
    IF event.t # "str" \/ event.s = ""
      THEN CodecError("EmptyEventName", FALSE)
      ELSE IF ~CanStringifyAll(payload)
             THEN CodecError("SerializationFailure", TRUE)
             ELSE [ok |-> TRUE,
                   text |-> Stringify(JObj(<<[key |-> "event", val |-> event],
                                             [key |-> "payload", val |-> JArr(payload)]>>))]

\* A deserialize that tests the payload before the event.
deserializePayloadFirst(message) ==
    IF message = NotAText THEN CodecError("NotAString", FALSE)
    ELSE LET r == JSONParse(message) IN
         IF ~r.ok THEN Catch(SyntaxError)
         ELSE IF r.val.t \notin {"obj", "arr"} THEN Catch(CodecError("NotAnObject", FALSE))
         ELSE IF ~HasKey(r.val, "event") \/ ~HasKey(r.val, "payload")
                THEN Catch(CodecError("MissingFields", FALSE))
         ELSE IF GetKey(r.val, "payload").t # "arr" THEN Catch(CodecError("PayloadNotArray", FALSE))
         ELSE IF GetKey(r.val, "event").t # "str" THEN Catch(CodecError("EventNotString", FALSE))
         ELSE [ok |-> TRUE,
               event |-> GetKey(r.val, "event").s,
               payload |-> GetKey(r.val, "payload").items]

\* MessageCodec.deserialize(message)
deserialize(message) ==
    IF message = NotAText THEN CodecError("NotAString", FALSE)
    ELSE LET r == JSONParse(message) IN
         IF ~r.ok THEN Catch(SyntaxError)
         ELSE IF r.val.t \notin {"obj", "arr"} THEN Catch(CodecError("NotAnObject", FALSE))
         ELSE IF ~HasKey(r.val, "event") \/ ~HasKey(r.val, "payload")
                THEN Catch(CodecError("MissingFields", FALSE))
         ELSE IF GetKey(r.val, "event").t # "str" THEN Catch(CodecError("EventNotString", FALSE))
         ELSE IF GetKey(r.val, "payload").t # "arr" THEN Catch(CodecError("PayloadNotArray", FALSE))
         ELSE [ok |-> TRUE,
               event |-> GetKey(r.val, "event").s,
               payload |-> GetKey(r.val, "payload").items]


(***************************************************************************)
(* The host's copy of the codec (MessageCodec.ts).                         *)
(***************************************************************************)

\* serialize(event: string, ...payload: unknown[])
hostSerialize(event, payload) ==
    IF event.t # "str" \/ event.s = ""
      THEN CodecError("EmptyEventName", FALSE)
      ELSE IF CanStringifyAll(payload)
             THEN [ok |-> TRUE,
                   text |-> Stringify(JObj(<<[key |-> "event", val |-> event],
                                             [key |-> "payload", val |-> JArr(payload)]>>))]
             ELSE CodecError("SerializationFailure", TRUE)

\* the catch clause of the host's deserialize
hostCatch(error) ==
    IF error.name = "MessageCodecError" THEN error ELSE CodecError("ParseFailure", TRUE)

\* A deserialize whose object test refuses arrays.
hostDeserializeNoArrays(message) ==
    IF message = NotAText THEN CodecError("NotAString", FALSE)
    ELSE LET r == JSONParse(message) IN
         IF ~r.ok THEN hostCatch(SyntaxError)
         ELSE IF r.val.t # "obj" THEN hostCatch(CodecError("NotAnObject", FALSE))
         ELSE IF ~(HasKey(r.val, "event") /\ HasKey(r.val, "payload"))
                THEN hostCatch(CodecError("MissingFields", FALSE))
         ELSE LET event == GetKey(r.val, "event")
                  payload == GetKey(r.val, "payload")
              IN  IF event.t # "str" THEN hostCatch(CodecError("EventNotString", FALSE))
                  ELSE IF payload.t # "arr"
                         THEN hostCatch(CodecError("PayloadNotArray", FALSE))
                  ELSE [ok |-> TRUE, event |-> event.s, payload |-> payload.items]

\* deserialize<T>(message: string)
hostDeserialize(message) ==
    IF message = NotAText THEN CodecError("NotAString", FALSE)
    ELSE LET r == JSONParse(message) IN
         IF ~r.ok THEN hostCatch(SyntaxError)
         ELSE IF r.val.t = "null" \/ r.val.t \notin {"obj", "arr"}
                THEN hostCatch(CodecError("NotAnObject", FALSE))
         ELSE IF ~(HasKey(r.val, "event") /\ HasKey(r.val, "payload"))
                THEN hostCatch(CodecError("MissingFields", FALSE))
         ELSE LET event == GetKey(r.val, "event")
                  payload == GetKey(r.val, "payload")
              IN  IF event.t # "str" THEN hostCatch(CodecError("EventNotString", FALSE))
                  ELSE IF payload.t # "arr"
                         THEN hostCatch(CodecError("PayloadNotArray", FALSE))
                  ELSE [ok |-> TRUE, event |-> event.s, payload |-> payload.items]


(***************************************************************************)
(* The bridge: channel names and the reserved system texts.                *)
(***************************************************************************)
SYSTEM_CHANNEL == "_SYSTEM_"
EVENT_CHANNEL == "_EVENTS_"
Channels == {SYSTEM_CHANNEL, EVENT_CHANNEL}

ReadyText == <<W("ready-for-app-events")>>
PauseText == <<W("pause")>>
ResumeText == <<W("resume")>>
ReleaseText == <<W("release-pause-event")>>

\* What the applications hand to post(): event names and payloads.
EventInputs == {JStr("foo"), JStr("")}
PayloadInputs == {<<JStr("a"), JNum(1)>>}
\* Channel names an application may send on that the embedded side never
\* registers, and the names a text can travel under.
UnregisteredNames == {"_OTHER_"}
ChannelNames == Channels \cup UnregisteredNames

\* Envelopes sent under a name that is not the event channel's.
OtherTexts == {serialize(JStr("foo"), <<JStr("a"), JNum(1)>>).text}

\* Texts sent on the event channel without the codec.
RawTexts == {<<W("not"), W("json")>>}

\* The module instances (a new one may be created by a hot reload), the one
\* the application starts the runtime on, and `instance` before any start call.
ModuleInstances == 1..MaxInstances
AppInstance == 1
NoInstance == 0
\* the three start calls
StartFunctions == {"startNodeWithScript", "startNodeProject", "startNodeProjectWithArgs"}

PauseListenerIds == 1..MaxPauseListeners
HostHandles == 1..MaxHostListeners

\* no codec call is under way; a call that has not returned; post() returned
Msg(kind, text, value) == [kind |-> kind, text |-> text, value |-> value]
NoCall == [event |-> JNull, payload |-> <<>>, message |-> Msg("none", <<>>, JNull)]
NotYet == [ok |-> FALSE, name |-> "pending"]
NothingRaised == "none"

BridgeInit ==
    /\ hostKind \in {"expo", "legacy"}
    /\ instance = NoInstance
    /\ startedNodeAlready = FALSE
    /\ nodeStarts = <<>>
    /\ nodeIsReadyForAppEvents = FALSE
    /\ appState = "foreground"
    /\ lifecycleSent = 0
    /\ handoff = <<>>
    /\ sendEventLog = <<>>
    /\ hostReceived = 0
    /\ toNode = [c \in ChannelNames |-> <<>>]
    /\ toHost = <<>>
    /\ sentToNode = 0
    /\ sentToHost = 0
    /\ nodeLoad = 0
    /\ created = <<>>
    /\ channels = [c \in {} |-> 0]
    /\ immediates = <<>>
    /\ pauseListeners = {}
    /\ locks = <<>>
    /\ nodeLog = <<>>
    /\ nodeDelivered = 0
    /\ nodeThrown = 0
    /\ nodeErrors = <<>>
    /\ listenerCount = 0
    /\ subscription = FALSE
    /\ hostListeners = [h \in HostHandles |-> "unused"]
    /\ removeCalls = [h \in HostHandles |-> 0]
    /\ activations = 0
    /\ deactivations = 0
    /\ hostProcessed = 0
    /\ hostLog = <<>>
    /\ hostWarned = 0
    /\ encoded = NotYet
    /\ decoded = NotYet
    /\ parsed = NotYet
    /\ hostEncoded = NotYet
    /\ hostParsed = NotYet
    /\ hostDecoded = NotYet
    /\ nodeDecoded = NotYet
    /\ raised = NothingRaised

(***************************************************************************)
(* The host module (Kotlin).                                               *)
(***************************************************************************)

\* sendMessageToNodeChannel -> rn_bridge_notify: the text joins the channel's
\* queue on the embedded side.
SendToNode(q, ch, text, n) == [q EXCEPT ![ch] = Append(@, [text |-> text, n |-> n])]

\* A start call that launches the runtime whatever the flag says.
MayStartAlways(started) == TRUE

\* the test of the start calls: if (!startedNodeAlready)
MayStart(started) == ~started

\* startNodeWithScript / startNodeProject / startNodeProjectWithArgs, called
\* on the module instance `self`: the instance is stored and, under the
\* test, the flag is set and the call of startNodeWithArguments is launched
\* (the launched coroutine or thread makes the call after waitForInit()).
HostStartCall(self, fn) ==
    /\ instance' = self
    /\ IF MayStart(startedNodeAlready)
         THEN /\ startedNodeAlready' = TRUE
              /\ nodeStarts' = Append(nodeStarts, [by |-> self, with |-> fn])
         ELSE UNCHANGED <<startedNodeAlready, nodeStarts>>
    /\ UNCHANGED <<hostKind, nodeIsReadyForAppEvents, appState, lifecycleSent,
                   handoff, sendEventLog, hostReceived>>
    /\ UNCHANGED <<wireVars, nodeVars, channelVars, poolVars, codecVars, marshalVars>>

\* nodejs.start(mainFileName) on the application's module instance
HostStart == HostStartCall(AppInstance, "startNodeProject")

\* A lifecycle hook without the readiness test.
MayForwardAlways(ready) == TRUE

\* The readiness test of the lifecycle hooks.
MayForward(ready) == ready

\* OnActivityEntersBackground / onHostPause
HostEntersBackground ==
    /\ appState = "foreground"
    /\ appState' = "background"
    /\ IF MayForward(nodeIsReadyForAppEvents)
         THEN /\ lifecycleSent < MaxLifecycle
              /\ toNode' = SendToNode(toNode, SYSTEM_CHANNEL, PauseText, lifecycleSent + 1)
              /\ lifecycleSent' = lifecycleSent + 1
         ELSE UNCHANGED <<toNode, lifecycleSent>>
    /\ UNCHANGED <<hostKind, instance, startedNodeAlready, nodeStarts, nodeIsReadyForAppEvents,
                   handoff, sendEventLog, hostReceived>>
    /\ UNCHANGED <<toHost, sentToNode, sentToHost>>
    /\ UNCHANGED <<nodeVars, channelVars, poolVars, codecVars, marshalVars>>

\* OnActivityEntersForeground / onHostResume
HostEntersForeground ==
    /\ appState = "background"
    /\ appState' = "foreground"
    /\ IF MayForward(nodeIsReadyForAppEvents)
         THEN /\ lifecycleSent < MaxLifecycle
              /\ toNode' = SendToNode(toNode, SYSTEM_CHANNEL, ResumeText, lifecycleSent + 1)
              /\ lifecycleSent' = lifecycleSent + 1
         ELSE UNCHANGED <<toNode, lifecycleSent>>
    /\ UNCHANGED <<hostKind, instance, startedNodeAlready, nodeStarts, nodeIsReadyForAppEvents,
                   handoff, sendEventLog, hostReceived>>
    /\ UNCHANGED <<toHost, sentToNode, sentToHost>>
    /\ UNCHANGED <<nodeVars, channelVars, poolVars, codecVars, marshalVars>>

\* A variant that stores the comparison's result instead of setting the flag.
handleAppChannelMessageAssign(ready, msg) == msg = ReadyText

\* handleAppChannelMessage(msg): the new value of the readiness flag
handleAppChannelMessage(ready, msg) ==
    IF msg = ReadyText THEN TRUE ELSE ready

\* sendMessageBackToReact(channelName, msg): the hand-off after the call
sendMessageBackToReact(pending, inst, m) ==
    IF inst # NoInstance THEN Append(pending, m) ELSE pending

\* sendMessageToApplication(channelName, msg), called by rcv_message
HostReceive ==
    /\ toHost # <<>>
    /\ LET m == Head(toHost) IN
       /\ toHost' = Tail(toHost)
       /\ hostReceived' = hostReceived + 1
       /\ IF m.ch = SYSTEM_CHANNEL
            THEN /\ nodeIsReadyForAppEvents' =
                        handleAppChannelMessage(nodeIsReadyForAppEvents, m.text)
                 /\ UNCHANGED handoff
            ELSE /\ handoff' = sendMessageBackToReact(handoff, instance, m)
                 /\ UNCHANGED nodeIsReadyForAppEvents
    /\ UNCHANGED <<hostKind, instance, startedNodeAlready, nodeStarts, appState, lifecycleSent,
                   sendEventLog>>
    /\ UNCHANGED <<toNode, sentToNode, sentToHost>>
    /\ UNCHANGED <<nodeVars, channelVars, poolVars, codecVars, marshalVars>>

(***************************************************************************)
(* The host EventChannel (RNNodeJsMobileModule.ts).                        *)
(***************************************************************************)

\* The indices of the hand-off that may run next: the coroutines launched on
\* Dispatchers.Main run in launch order; the legacy module starts one thread
\* per message and the threads run in any order.
Runnable(kind, pending) ==
    IF kind = "expo" THEN {i \in 1..Len(pending) : i = 1} ELSE 1..Len(pending)

RemoveAt(q, i) == [j \in 1..(Len(q) - 1) |-> IF j < i THEN q[j] ELSE q[j + 1]]

\* EventChannel.#processData(data), as <<emitted, warned>>
processData(data) ==
    LET envelope == hostDeserialize(data) IN
    IF envelope.ok THEN [emit |-> TRUE, event |-> envelope.event, payload |-> envelope.payload]
    ELSE [emit |-> FALSE]

\* A subscription callback that takes the messages of every channel.
IsOwnChannelAny(channelName, name) == TRUE

\* the subscription callback's test: event.channelName !== this.#name returns
IsOwnChannel(channelName, name) == channelName = name

\* moduleInstance.sendEvent(EVENT_NAME, params), and the subscription's
\* callback of #startNativeSubscription when a subscription is active.
HostSendEvent ==
    \E i \in Runnable(hostKind, handoff) :
        LET m == handoff[i]
            called == subscription /\ IsOwnChannel(m.ch, EVENT_CHANNEL)
            r == processData(m.text)
        IN  /\ handoff' = RemoveAt(handoff, i)
            /\ sendEventLog' = Append(sendEventLog, [ch |-> m.ch, n |-> m.n])
            /\ hostProcessed' = IF called THEN hostProcessed + 1 ELSE hostProcessed
            /\ hostLog' = IF called /\ r.emit
                            THEN Append(hostLog, [ch |-> m.ch, event |-> r.event,
                                                  payload |-> r.payload, n |-> m.n])
                            ELSE hostLog
            /\ hostWarned' = IF called /\ ~r.emit THEN hostWarned + 1 ELSE hostWarned
    /\ UNCHANGED <<hostKind, instance, startedNodeAlready, nodeStarts, nodeIsReadyForAppEvents,
                   appState, lifecycleSent, hostReceived>>
    /\ UNCHANGED <<listenerCount, subscription, hostListeners, removeCalls,
                   activations, deactivations>>
    /\ UNCHANGED <<wireVars, nodeVars, poolVars, codecVars, marshalVars>>

\* #startNativeSubscription: <<subscription, activations>> afterwards
startNativeSubscription(sub, acts) ==
    IF sub THEN <<sub, acts>> ELSE <<TRUE, acts + 1>>

\* #stopNativeSubscription: <<subscription, deactivations>> afterwards
stopNativeSubscription(sub, deacts) ==
    IF ~sub THEN <<sub, deacts>> ELSE <<FALSE, deacts + 1>>

\* The test of addListener that starts native delivery.
IsFirstListener(count) == count = 1
\* A remove() that stops native delivery one listener too early.
IsLastListenerEarly(count) == count = 1
\* The test of remove() that stops native delivery.
IsLastListener(count) == count = 0

\* EventChannel.addListener(event, listener)
HostAddListener(h) ==
    /\ hostListeners[h] = "unused"
    /\ hostListeners' = [hostListeners EXCEPT ![h] = "added"]
    /\ listenerCount' = listenerCount + 1
    /\ LET r == IF IsFirstListener(listenerCount + 1)
                  THEN startNativeSubscription(subscription, activations)
                  ELSE <<subscription, activations>>
       IN  /\ subscription' = r[1]
           /\ activations' = r[2]
    /\ UNCHANGED <<removeCalls, deactivations, hostProcessed, hostLog, hostWarned>>
    /\ UNCHANGED <<hostVars, wireVars, nodeVars, poolVars, codecVars, marshalVars>>

\* remove() of the subscription addListener returned
HostRemoveListener(h) ==
    /\ hostListeners[h] # "unused"
    /\ removeCalls[h] < MaxRemoveCalls
    /\ removeCalls' = [removeCalls EXCEPT ![h] = @ + 1]
    /\ hostListeners' = [hostListeners EXCEPT ![h] = "removed"]
    /\ listenerCount' = listenerCount - 1
    /\ LET r == IF IsLastListener(listenerCount - 1)
                  THEN stopNativeSubscription(subscription, deactivations)
                  ELSE <<subscription, deactivations>>
       IN  /\ subscription' = r[1]
           /\ deactivations' = r[2]
    /\ UNCHANGED <<activations, hostProcessed, hostLog, hostWarned>>
    /\ UNCHANGED <<hostVars, wireVars, nodeVars, poolVars, codecVars, marshalVars>>

\* EventChannel.post(event, ...msg) on the host: serialize throws to the
\* caller, or the text is sent on the channel's own name.
HostPost(event, payload) ==
    /\ sentToNode < MaxHostSends
    /\ LET r == hostSerialize(event, payload) IN
       IF r.ok
         THEN /\ toNode' = SendToNode(toNode, EVENT_CHANNEL, r.text, sentToNode + 1)
              /\ sentToNode' = sentToNode + 1
              /\ raised' = NothingRaised
         ELSE /\ raised' = r.err
              /\ UNCHANGED <<toNode, sentToNode>>
    /\ UNCHANGED <<toHost, sentToHost>>
    /\ UNCHANGED <<hostVars, nodeVars, channelVars, poolVars, codecCallVars, marshalVars>>

\* RNNodeJsMobile.sendMessage(channel, msg) with a text the codec did not make
HostSendRaw(text) ==
    /\ sentToNode < MaxHostSends
    /\ toNode' = SendToNode(toNode, EVENT_CHANNEL, text, sentToNode + 1)
    /\ sentToNode' = sentToNode + 1
    /\ UNCHANGED <<toHost, sentToHost>>
    /\ UNCHANGED <<hostVars, nodeVars, channelVars, poolVars, codecVars, marshalVars>>

\* RNNodeJsMobile.sendMessage(channel, msg) on a channel name of the caller's
\* choice
HostSendTo(ch, text) ==
    /\ sentToNode < MaxHostSends
    /\ toNode' = SendToNode(toNode, ch, text, sentToNode + 1)
    /\ sentToNode' = sentToNode + 1
    /\ UNCHANGED <<toHost, sentToHost>>
    /\ UNCHANGED <<hostVars, nodeVars, channelVars, poolVars, codecVars, marshalVars>>

\* The text of a pause that carries an event id: "pause|<eventId>".
PauseWithId(id) == <<W("pause"), P("|"), N(id)>>
\* The system texts a host sends as its k-th message: pause or resume, the
\* pause plain or with a fresh event id.
SystemInputs(k) == {PauseText, PauseWithId(k), ResumeText}

\* sendMessage(SYSTEM_CHANNEL, text) as the host's k-th message: a host that
\* tags its pauses
HostSendSystem(k, text) ==
    /\ sentToNode < MaxHostSends
    /\ k = sentToNode + 1
    /\ toNode' = SendToNode(toNode, SYSTEM_CHANNEL, text, sentToNode + 1)
    /\ sentToNode' = sentToNode + 1
    /\ UNCHANGED <<toHost, sentToHost>>
    /\ UNCHANGED <<hostVars, nodeVars, channelVars, poolVars, codecVars, marshalVars>>


(***************************************************************************)
(* The embedded side (rn-bridge/index.js).                                 *)
(***************************************************************************)

\* NativeBridge.sendMessage(channel, text): rcv_message hands the text to the
\* host's sendMessageToApplication.
SendToHost(q, ch, text, n) == Append(q, [ch |-> ch, text |-> text, n |-> n])

\* new SystemChannel(name) / new EventChannel(name): the object joins the
\* objects constructed; an object is known by its position among them
NewChannel(objects, kind, name) == Append(objects, [kind |-> kind, name |-> name])

\* A registry that keeps the channel already registered under a name.
registerChannelKeepFirst(reg, name, channel) ==
    [c \in (DOMAIN reg) \cup {name} |-> IF c \in DOMAIN reg THEN reg[c] ELSE channel]

\* registerChannel(channel): channels[channel.name] = channel
registerChannel(reg, name, channel) ==
    [c \in (DOMAIN reg) \cup {name} |-> IF c = name THEN channel ELSE reg[c]]

\* the object the module exports as `app`: the first one constructed
AppChannel == 1

\* Top-level code, lines 266-267: the system channel is created and registered.
NodeLoadSystemChannel ==
    /\ startedNodeAlready
    /\ nodeLoad = 0
    /\ nodeLoad' = 1
    /\ created' = NewChannel(created, "system", SYSTEM_CHANNEL)
    /\ channels' = registerChannel(channels, SYSTEM_CHANNEL, Len(created) + 1)
    /\ UNCHANGED <<immediates, pauseListeners, locks, nodeLog, nodeDelivered, nodeThrown,
                   nodeErrors>>
    /\ UNCHANGED <<hostVars, wireVars, channelVars, poolVars, codecVars, marshalVars>>

\* Top-level code, line 270: the readiness signal.
NodeLoadReady ==
    /\ nodeLoad = 1
    /\ nodeLoad' = 2
    /\ toHost' = SendToHost(toHost, SYSTEM_CHANNEL, ReadyText, 0)
    /\ UNCHANGED <<created, channels, immediates, pauseListeners, locks, nodeLog,
                   nodeDelivered, nodeThrown,
                   nodeErrors>>
    /\ UNCHANGED <<toNode, sentToNode, sentToHost>>
    /\ UNCHANGED <<hostVars, channelVars, poolVars, codecVars, marshalVars>>

\* Top-level code, lines 272-273: the event channel is created and registered.
NodeLoadEventChannel ==
    /\ nodeLoad = 2
    /\ nodeLoad' = 3
    /\ created' = NewChannel(created, "event", EVENT_CHANNEL)
    /\ channels' = registerChannel(channels, EVENT_CHANNEL, Len(created) + 1)
    /\ UNCHANGED <<immediates, pauseListeners, locks, nodeLog, nodeDelivered, nodeThrown,
                   nodeErrors>>
    /\ UNCHANGED <<hostVars, wireVars, channelVars, poolVars, codecVars, marshalVars>>

\* A further channel is constructed under `name` and handed to
\* registerChannel, as the module's top level does for its two.
NodeRegisterChannel(name, kind) ==
    /\ nodeLoad = 3
    /\ Len(created) < 2 + MaxRegistrations
    /\ created' = NewChannel(created, kind, name)
    /\ channels' = registerChannel(channels, name, Len(created) + 1)
    /\ UNCHANGED <<nodeLoad, immediates, pauseListeners, locks, nodeLog,
                   nodeDelivered, nodeThrown,
                   nodeErrors>>
    /\ UNCHANGED <<hostVars, wireVars, channelVars, poolVars, codecVars, marshalVars>>

\* The "pause" listeners of a channel object: the application holds only
\* the exported one and adds its listeners there.
ListenersOf(this) == IF this = AppChannel THEN pauseListeners ELSE {}

\* ChannelSuper.emitWrapper(type, ...msg): the emission is a setImmediate task.
emitWrapper(this, queue, ch, event, payload, n) ==
    Append(queue, [k |-> "emit", obj |-> this, ch |-> ch, event |-> event,
                   payload |-> payload, n |-> n])

\* SystemChannel.emitWrapper(type): a setImmediate task in both branches.
\* The task also records, for the history only, how many "pause" listeners
\* the channel had when it was queued (queuedWith); the code keeps no such
\* count.
systemEmitWrapper(this, queue, ch, type, n) ==
    Append(queue, [k |-> "system", obj |-> this, ch |-> ch, event |-> type,
                   payload |-> <<>>, n |-> n,
                   queuedWith |-> Cardinality(ListenersOf(this))])

\* channels.hasOwnProperty(channelName)
hasOwnProperty(reg, name) == name \in DOMAIN reg

\* A lookup failure that reports nothing.
ChannelNotFoundSilent(errors, name) == errors

\* console.error("ERROR: Channel not found:", channelName)
ChannelNotFound(errors, name) == Append(errors, name)

\* bridgeListener(channelName, data), invoked by the native code with the
\* next text of a channel's queue.
BridgeListener(ch) ==
    /\ nodeLoad = 3
    /\ toNode[ch] # <<>>
    /\ LET m == Head(toNode[ch]) IN
       /\ toNode' = [toNode EXCEPT ![ch] = Tail(@)]
       /\ nodeDelivered' = nodeDelivered + 1
       /\ IF ~hasOwnProperty(channels, ch)
            THEN /\ nodeErrors' = ChannelNotFound(nodeErrors, ch)
                 /\ UNCHANGED <<immediates, nodeThrown>>
            ELSE IF created[channels[ch]].kind = "system"
                   THEN \* SystemChannel.processData
                        /\ immediates' = systemEmitWrapper(channels[ch], immediates, ch,
                                                          m.text, m.n)
                        /\ UNCHANGED <<nodeThrown, nodeErrors>>
                   ELSE \* EventChannel.processData: deserialize throws to the caller
                        LET envelope == deserialize(m.text) IN
                        IF envelope.ok
                          THEN /\ immediates' = emitWrapper(channels[ch], immediates, ch,
                                                            <<S(envelope.event)>>,
                                                            envelope.payload, m.n)
                               /\ UNCHANGED <<nodeThrown, nodeErrors>>
                          ELSE /\ nodeThrown' = nodeThrown + 1
                               /\ UNCHANGED <<immediates, nodeErrors>>
    /\ UNCHANGED <<nodeLoad, created, channels, pauseListeners, locks, nodeLog>>
    /\ UNCHANGED <<toHost, sentToNode, sentToHost>>
    /\ UNCHANGED <<hostVars, channelVars, poolVars, codecVars, marshalVars>>

\* A test that takes every system text for a pause.
StartsWithAnything(type) == Len(type) >= 1

\* type.startsWith("pause"), on the text's first word
StartsWithPause(type) == Len(type) >= 1 /\ type[1] = W("pause")

\* type.split("|")
RECURSIVE SplitBar(_, _, _)
SplitBar(text, part, acc) ==
    IF text = <<>> THEN Append(acc, part)
    ELSE IF Head(text) = P("|") THEN SplitBar(Tail(text), <<>>, Append(acc, part))
    ELSE SplitBar(Tail(text), Append(part, Head(text)), acc)

\* A release message that drops the event id.
ReleaseMessagePlain(type) == ReleaseText

\* The release message of lines 199-205.
ReleaseMessage(type) ==
    LET eventArguments == SplitBar(type, <<>>, <<>>) IN
    IF Len(eventArguments) >= 2
      THEN ReleaseText \o <<P("|")>> \o eventArguments[2]
      ELSE ReleaseText

\* A _checkRelease() that fires only once the counter is below zero.
checkReleaseStrict(lock) ==
    IF lock.locksAcquired < 0
      THEN [lock EXCEPT !.hasReleased = TRUE, !.fired = @ + 1, !.firedOnCall = lock.releaseCalls]
      ELSE lock

\* SystemEventLock._checkRelease()
checkRelease(lock) ==
    IF lock.locksAcquired <= 0
      THEN [lock EXCEPT !.hasReleased = TRUE, !.fired = @ + 1, !.firedOnCall = lock.releaseCalls]
      ELSE lock

\* A constructor without the initial _checkRelease().
SystemEventLockUnchecked(releaseMessage, startingLocks, holders) ==
    [locksAcquired |-> startingLocks,
     hasReleased |-> FALSE,
     releaseMessage |-> releaseMessage,
     startingLocks |-> startingLocks,
     holders |-> holders,
     calls |-> [l \in holders |-> 0],
     releaseCalls |-> 0,
     fired |-> 0,
     firedOnCall |-> 0]

\* new SystemEventLock(callback, startingLocks)
SystemEventLock(releaseMessage, startingLocks, holders) ==
    checkRelease([locksAcquired |-> startingLocks,
                  hasReleased |-> FALSE,
                  releaseMessage |-> releaseMessage,
                  startingLocks |-> startingLocks,
                  holders |-> holders,
                  calls |-> [l \in holders |-> 0],
                  releaseCalls |-> 0,
                  fired |-> 0,
                  firedOnCall |-> 0])

\* A release() without the _hasReleased test.
releaseUnguarded(lock) == checkRelease([lock EXCEPT !.locksAcquired = @ - 1])

\* SystemEventLock.release()
release(lock) ==
    IF lock.hasReleased THEN lock
    ELSE checkRelease([lock EXCEPT !.locksAcquired = @ - 1])

\* The lock's callback ran `times` times: NativeBridge.sendMessage each time.
Callback(q, lock, times) ==
    IF times > 0 THEN SendToHost(q, SYSTEM_CHANNEL, lock.releaseMessage, 0) ELSE q

\* The callback of a lock made by the channel object `this`: it sends on the
\* object's own name.
CallbackOf(this, q, lock, times) ==
    IF times > 0 THEN SendToHost(q, created[this].name, lock.releaseMessage, 0) ELSE q

\* A count taken when the pause text was received.
pauseListenerCountAtReceipt(task) == task.queuedWith

\* _this.listenerCount("pause"), evaluated inside the setImmediate callback
pauseListenerCount(task) == Cardinality(ListenersOf(task.obj))

\* The next setImmediate task runs.
RunImmediate ==
    /\ nodeLoad = 3
    /\ immediates # <<>>
    /\ LET task == Head(immediates) IN
       /\ immediates' = Tail(immediates)
       /\ IF task.k = "system" /\ StartsWithPause(task.event)
            THEN LET eventLock == SystemEventLock(ReleaseMessage(task.event),
                                                  pauseListenerCount(task),
                                                  ListenersOf(task.obj))
                 IN  /\ locks' = Append(locks, eventLock)
                     /\ toHost' = CallbackOf(task.obj, toHost, eventLock, eventLock.fired)
                     /\ nodeLog' = Append(nodeLog, [ch |-> task.ch, event |-> PauseText,
                                                    payload |-> <<>>, n |-> task.n])
            ELSE /\ nodeLog' = Append(nodeLog, [ch |-> task.ch, event |-> task.event,
                                                payload |-> task.payload, n |-> task.n])
                 /\ UNCHANGED <<locks, toHost>>
    /\ UNCHANGED <<nodeLoad, created, channels, pauseListeners, nodeDelivered, nodeThrown,
                   nodeErrors>>
    /\ UNCHANGED <<toNode, sentToNode, sentToHost>>
    /\ UNCHANGED <<hostVars, channelVars, poolVars, codecVars, marshalVars>>

\* rn_bridge.app.on("pause", listener)
NodeAddPauseListener(l) ==
    /\ nodeLoad = 3
    /\ l \notin pauseListeners
    /\ pauseListeners' = pauseListeners \cup {l}
    /\ UNCHANGED <<nodeLoad, created, channels, immediates, locks, nodeLog, nodeDelivered, nodeThrown,
                   nodeErrors>>
    /\ UNCHANGED <<hostVars, wireVars, channelVars, poolVars, codecVars, marshalVars>>

\* rn_bridge.app.removeListener("pause", listener)
NodeRemovePauseListener(l) ==
    /\ nodeLoad = 3
    /\ l \in pauseListeners
    /\ pauseListeners' = pauseListeners \ {l}
    /\ UNCHANGED <<nodeLoad, created, channels, immediates, locks, nodeLog, nodeDelivered, nodeThrown,
                   nodeErrors>>
    /\ UNCHANGED <<hostVars, wireVars, channelVars, poolVars, codecVars, marshalVars>>

\* A pause listener calls release() on the lock it was handed.
NodeRelease(i, l) ==
    /\ nodeLoad = 3
    /\ i \in 1..Len(locks)
    /\ l \in locks[i].holders
    /\ locks[i].calls[l] < MaxReleaseCalls
    /\ LET called == [locks[i] EXCEPT !.calls[l] = @ + 1, !.releaseCalls = @ + 1]
           after == release(called)
       IN  /\ locks' = [locks EXCEPT ![i] = after]
           /\ toHost' = Callback(toHost, after, after.fired - locks[i].fired)
    /\ UNCHANGED <<nodeLoad, created, channels, immediates, pauseListeners, nodeLog,
                   nodeDelivered, nodeThrown,
                   nodeErrors>>
    /\ UNCHANGED <<toNode, sentToNode, sentToHost>>
    /\ UNCHANGED <<hostVars, channelVars, poolVars, codecVars, marshalVars>>

\* EventChannel.post(event, ...msg) on the embedded side
NodePost(event, payload) ==
    /\ nodeLoad = 3
    /\ sentToHost < MaxNodeSends
    /\ LET r == serialize(event, payload) IN
       IF r.ok
         THEN /\ toHost' = SendToHost(toHost, EVENT_CHANNEL, r.text, sentToHost + 1)
              /\ sentToHost' = sentToHost + 1
              /\ raised' = NothingRaised
         ELSE /\ raised' = r.err
              /\ UNCHANGED <<toHost, sentToHost>>
    /\ UNCHANGED <<toNode, sentToNode>>
    /\ UNCHANGED <<hostVars, nodeVars, channelVars, poolVars, codecCallVars, marshalVars>>

\* NativeBridge.sendMessage(channel, text) on a channel name of the sender's
\* choice
NodeSendTo(ch, text) ==
    /\ nodeLoad = 3
    /\ sentToHost < MaxNodeSends
    /\ toHost' = SendToHost(toHost, ch, text, sentToHost + 1)
    /\ sentToHost' = sentToHost + 1
    /\ UNCHANGED <<toNode, sentToNode>>
    /\ UNCHANGED <<hostVars, nodeVars, channelVars, poolVars, codecVars, marshalVars>>

\* NativeBridge.sendMessage(channel, text) with a text the codec did not make
NodeSendRaw(text) ==
    /\ nodeLoad = 3
    /\ sentToHost < MaxNodeSends
    /\ toHost' = SendToHost(toHost, EVENT_CHANNEL, text, sentToHost + 1)
    /\ sentToHost' = sentToHost + 1
    /\ UNCHANGED <<toNode, sentToNode>>
    /\ UNCHANGED <<hostVars, nodeVars, channelVars, poolVars, codecVars, marshalVars>>

(***************************************************************************)
(* Calls of the codec and of post()/send() with chosen arguments.          *)
(***************************************************************************)

\* an object literal with one, two or three members
Obj1(k1, v1) == JObj(<<[key |-> k1, val |-> v1]>>)
Obj2(k1, v1, k2, v2) == JObj(<<[key |-> k1, val |-> v1], [key |-> k2, val |-> v2]>>)
Obj3(k1, v1, k2, v2, k3, v3) ==
    JObj(<<[key |-> k1, val |-> v1], [key |-> k2, val |-> v2], [key |-> k3, val |-> v3]>>)

\* first arguments of serialize / post: strings, the empty string, non-strings
EventArgs == {JStr("foo"), JStr("message"), JStr(""), JNum(123), JNull}

\* rest arguments of serialize / post / send that JSON can represent
PlainPayloads ==
    { <<>>,
      <<JStr("a"), JStr("b")>>,
      <<JStr("b"), JStr("a")>>,
      <<JStr("hello"), JNum(123), JBool("true")>>,
      <<JNull, JNum(0), JBool("false")>>,
      <<JArr(<<>>), JObj(<<>>)>>,
      <<JArr(<<JNum(1), JArr(<<JStr("a")>>)>>)>>,
      <<Obj3("nested", Obj1("value", JNum(42)),
             "array", JArr(<<JNum(1), JNum(2)>>),
             "nullValue", JNull)>>,
      <<Obj2("event", JNum(1), "payload", JStr("x")), JStr("tail")>> }
\* rest arguments that hold a cyclic structure
CyclicPayloads ==
    { <<JCyclic>>,
      <<JStr("a"), Obj1("self", JCyclic)>>,
      <<JArr(<<JNum(1), JCyclic>>)>> }
PayloadArgs == PlainPayloads \cup CyclicPayloads

\* texts that are not JSON
BadTexts ==
    { <<>>,
      <<W("not"), W("json")>>,
      <<W("invalid")>>,
      <<P("{"), S("event"), P(":"), S("x")>>,
      <<P("{"), S("event"), P(":"), S("x"), P(","), P("}")>>,
      <<P("["), N(1), P(",")>>,
      <<S("x"), S("y")>> }
\* JSON values handed to deserialize as text
MessageValues ==
    { JNull, JStr("x"), JStr(""), JNum(0), JNum(1), JBool("true"), JBool("false"),
      JArr(<<>>), JArr(<<JStr("event"), JStr("payload")>>),
      JObj(<<>>),
      Obj1("event", JStr("x")),
      Obj1("event", JNum(1)),
      Obj1("payload", JArr(<<>>)),
      Obj1("payload", JNum(1)),
      Obj2("event", JNum(1), "payload", JArr(<<>>)),
      Obj2("event", JNull, "payload", JArr(<<>>)),
      Obj2("event", JNum(1), "payload", JNum(1)),
      Obj2("event", JStr("x"), "payload", JNum(1)),
      Obj2("event", JStr("x"), "payload", JStr("string")),
      Obj2("event", JStr("x"), "payload", JNull),
      Obj2("event", JStr("x"), "payload", Obj1("length", JNum(0))),
      Obj2("event", JStr("x"), "payload", JArr(<<>>)),
      Obj2("event", JStr(""), "payload", JArr(<<JNum(1)>>)),
      Obj2("payload", JArr(<<JStr("a"), JStr("b")>>), "event", JStr("foo")),
      Obj3("event", JStr("x"), "extra", JNull, "payload", JArr(<<JNull>>)) }

\* arguments of deserialize: a non-string, a text that is not JSON, or the
\* text of a JSON value
MessageArgs ==
    {Msg("nontext", NotAText, JNull)}
      \cup {Msg("badjson", text, JNull) : text \in BadTexts}
      \cup {Msg("json", Stringify(v), v) : v \in MessageValues}

CodecCalls == [event : EventArgs, payload : PayloadArgs, message : MessageArgs]

CodecInit == call \in CodecCalls \cup {NoCall}

\* A send() that posts under another event name.
sendAsData(msg) == [event |-> JStr("data"), payload |-> msg]

\* EventChannel.send(...msg): the post() call it makes
send(msg) == [event |-> JStr("message"), payload |-> msg]

\* EventChannel.send(...msg) on the host
HostSend(msg) ==
    LET posted == send(msg) IN HostPost(posted.event, posted.payload)

\* EventChannel.send(...msg) on the embedded side
NodeSend(msg) ==
    LET posted == send(msg) IN NodePost(posted.event, posted.payload)

\* serialize(call.event, ...call.payload)
CodecSerialize ==
    /\ call # NoCall
    /\ encoded = NotYet
    /\ encoded' = serialize(call.event, call.payload)
    /\ UNCHANGED <<call, decoded, parsed, raised, hostCodecVars>>
    /\ UNCHANGED <<hostVars, wireVars, nodeVars, channelVars, poolVars, marshalVars>>

\* deserialize(text) of the text serialize returned
CodecRoundTrip ==
    /\ encoded.ok
    /\ decoded = NotYet
    /\ decoded' = deserialize(encoded.text)
    /\ UNCHANGED <<call, encoded, parsed, raised, hostCodecVars>>
    /\ UNCHANGED <<hostVars, wireVars, nodeVars, channelVars, poolVars, marshalVars>>

\* deserialize(call.message)
CodecDeserialize ==
    /\ call # NoCall
    /\ parsed = NotYet
    /\ parsed' = deserialize(call.message.text)
    /\ UNCHANGED <<call, encoded, decoded, raised, hostCodecVars>>
    /\ UNCHANGED <<hostVars, wireVars, nodeVars, channelVars, poolVars, marshalVars>>

\* the host's serialize(call.event, ...call.payload)
HostCodecSerialize ==
    /\ call # NoCall
    /\ hostEncoded = NotYet
    /\ hostEncoded' = hostSerialize(call.event, call.payload)
    /\ UNCHANGED <<call, encoded, decoded, parsed, raised, hostParsed, hostDecoded, nodeDecoded>>
    /\ UNCHANGED <<hostVars, wireVars, nodeVars, channelVars, poolVars, marshalVars>>

\* the host's deserialize(call.message)
HostCodecDeserialize ==
    /\ call # NoCall
    /\ hostParsed = NotYet
    /\ hostParsed' = hostDeserialize(call.message.text)
    /\ UNCHANGED <<call, encoded, decoded, parsed, raised, hostEncoded, hostDecoded, nodeDecoded>>
    /\ UNCHANGED <<hostVars, wireVars, nodeVars, channelVars, poolVars, marshalVars>>

\* the host's deserialize of the text the embedded side's serialize returned
HostCodecDecode ==
    /\ encoded.ok
    /\ hostDecoded = NotYet
    /\ hostDecoded' = hostDeserialize(encoded.text)
    /\ UNCHANGED <<call, encoded, decoded, parsed, raised, hostEncoded, hostParsed, nodeDecoded>>
    /\ UNCHANGED <<hostVars, wireVars, nodeVars, channelVars, poolVars, marshalVars>>

\* the embedded side's deserialize of the text the host's serialize returned
NodeCodecDecode ==
    /\ hostEncoded.ok
    /\ nodeDecoded = NotYet
    /\ nodeDecoded' = deserialize(hostEncoded.text)
    /\ UNCHANGED <<call, encoded, decoded, parsed, raised, hostEncoded, hostParsed, hostDecoded>>
    /\ UNCHANGED <<hostVars, wireVars, nodeVars, channelVars, poolVars, marshalVars>>

(***************************************************************************)
(* native-lib.cpp: startNodeWithArguments, the argument marshaling.        *)
(***************************************************************************)
MaxArgs == 3
MaxArgLen == 1

\* The bytes of an argument: GetStringUTFChars returns modified UTF-8, which
\* holds no zero byte.
Bytes == {97, 98}
\* the arguments' byte strings, without their terminator
ByteStrings == UNION {[1..n -> Bytes] : n \in 0..MaxArgLen}
\* the `arguments` array: the callers pass "node" and at least one more
ArgumentLists == UNION {[1..n -> ByteStrings] : n \in 1..MaxArgs}
\* no start call is marshaling arguments
NotStarting == <<>>
\* callintoNode has not been called
NotCalled == [argc |-> -1, argv |-> <<>>]

\* the memory of a C string: its bytes and the terminator
CStr(bytes) == Append(bytes, 0)

\* strlen(mem + pos): the bytes before the first zero byte (before the end
\* of the memory, where the C function would read past it)
RECURSIVE strlen(_, _)
strlen(mem, pos) ==
    IF pos + 1 > Len(mem) \/ mem[pos + 1] = 0 THEN 0 ELSE 1 + strlen(mem, pos + 1)

\* strncpy(mem + pos, src, n): n bytes are written, those of src up to its
\* terminator and zero bytes after it
strncpy(mem, pos, src, n) ==
    [k \in 1..Len(mem) |->
        IF k > pos /\ k <= pos + n
          THEN (IF k - pos <= strlen(src, 0) THEN src[k - pos] ELSE 0)
          ELSE mem[k]]

\* calloc(size, sizeof(char)): zero bytes
calloc(size) == [k \in 1..size |-> 0]

\* An advance that leaves no room for the terminator.
AdvanceNoTerminator(mem, pos) == pos + strlen(mem, pos)

\* current_args_position += strlen(current_args_position) + 1
Advance(mem, pos) == pos + strlen(mem, pos) + 1

\* the C string the runtime reads at mem + pos
ReadCString(mem, pos) == [k \in 1..strlen(mem, pos) |-> mem[pos + k]]

MarshalInit ==
    /\ string_refs \in ArgumentLists \cup {NotStarting}
    /\ marshal_pc = "size"
    /\ arg_i = 0
    /\ c_arguments_size = 0
    /\ args_buffer = <<>>
    /\ argv = <<>>
    /\ current_args_position = 0
    /\ node_args = NotCalled

\* One iteration of the first loop (lines 294-299).
MarshalSize ==
    /\ string_refs # NotStarting
    /\ marshal_pc = "size"
    /\ arg_i < Len(string_refs)
    /\ c_arguments_size' = c_arguments_size + strlen(CStr(string_refs[arg_i + 1]), 0) + 1
    /\ arg_i' = arg_i + 1
    /\ UNCHANGED <<string_refs, marshal_pc, args_buffer, argv, current_args_position,
                   node_args>>
    /\ UNCHANGED <<poolVars, bridgeVars>>

\* The buffer is allocated and the second loop is set up (lines 302-308).
MarshalAlloc ==
    /\ string_refs # NotStarting
    /\ marshal_pc = "size"
    /\ arg_i = Len(string_refs)
    /\ args_buffer' = calloc(c_arguments_size)
    /\ current_args_position' = 0
    /\ arg_i' = 0
    /\ marshal_pc' = "fill"
    /\ UNCHANGED <<string_refs, c_arguments_size, argv, node_args>>
    /\ UNCHANGED <<poolVars, bridgeVars>>

\* One iteration of the second loop (lines 311-323).
MarshalFill ==
    /\ marshal_pc = "fill"
    /\ arg_i < Len(string_refs)
    /\ LET current_argument == CStr(string_refs[arg_i + 1])
           copied == strncpy(args_buffer, current_args_position, current_argument,
                             strlen(current_argument, 0))
       IN  /\ args_buffer' = copied
           /\ argv' = Append(argv, current_args_position)
           /\ current_args_position' = Advance(copied, current_args_position)
    /\ arg_i' = arg_i + 1
    /\ UNCHANGED <<string_refs, marshal_pc, c_arguments_size, node_args>>
    /\ UNCHANGED <<poolVars, bridgeVars>>

\* callintoNode(argument_count, argv) (line 361): the runtime reads each
\* argv[i] as a C string.
MarshalCallIntoNode ==
    /\ marshal_pc = "fill"
    /\ arg_i = Len(string_refs)
    /\ node_args' = [argc |-> Len(string_refs),
                     argv |-> [k \in 1..Len(argv) |-> ReadCString(args_buffer, argv[k])]]
    /\ marshal_pc' = "started"
    /\ UNCHANGED <<string_refs, arg_i, c_arguments_size, args_buffer, argv,
                   current_args_position>>
    /\ UNCHANGED <<poolVars, bridgeVars>>

(***************************************************************************)
(* Specifications.                                                         *)
(***************************************************************************)
Init == PoolInit /\ BridgeInit /\ CodecInit /\ MarshalInit
\* the bridge with every crossing thread native
BridgeStart == Init /\ external = {} /\ call = NoCall /\ string_refs = NotStarting
\* the attachment cache under the current host module
PoolStart == Init /\ hostKind = "expo" /\ call = NoCall /\ string_refs = NotStarting
\* the applications calling post() and send()
PostStart == Init /\ external = {} /\ hostKind = "expo" /\ call # NoCall
                  /\ string_refs = NotStarting
                  /\ call.message = Msg("nontext", NotAText, JNull)
\* the codec called directly
CodecStart == Init /\ external = {} /\ hostKind = "expo" /\ call # NoCall
                   /\ string_refs = NotStarting

\* a start call marshaling its arguments
MarshalStart == Init /\ external = {} /\ hostKind = "expo" /\ call = NoCall
                     /\ string_refs # NotStarting

\* The lifecycle path: readiness, pause/resume and the pause locks.
LifecycleNext ==
    \/ HostStart
    \/ HostEntersBackground
    \/ HostEntersForeground
    \/ HostReceive
    \/ NodeLoadSystemChannel
    \/ NodeLoadReady
    \/ NodeLoadEventChannel
    \/ \E ch \in Channels : BridgeListener(ch)
    \/ RunImmediate
    \/ \E l \in PauseListenerIds : NodeAddPauseListener(l)
    \/ \E l \in PauseListenerIds : NodeRemovePauseListener(l)
    \/ \E i \in 1..MaxLifecycle, l \in PauseListenerIds : NodeRelease(i, l)

\* The event channel from the embedded side to the host's listeners.
HostChannelNext ==
    \/ HostStart
    \/ HostReceive
    \/ HostSendEvent
    \/ \E h \in HostHandles : HostAddListener(h)
    \/ \E h \in HostHandles : HostRemoveListener(h)
    \/ NodeLoadSystemChannel
    \/ NodeLoadReady
    \/ NodeLoadEventChannel
    \/ \E e \in EventInputs, pl \in PayloadInputs : NodePost(e, pl)
    \/ \E text \in RawTexts : NodeSendRaw(text)
    \/ \E ch \in UnregisteredNames, text \in OtherTexts : NodeSendTo(ch, text)

\* The event channel in both directions.
ChannelNext ==
    \/ HostChannelNext
    \/ \E e \in EventInputs, pl \in PayloadInputs : HostPost(e, pl)
    \/ \E text \in RawTexts : HostSendRaw(text)
    \/ \E ch \in Channels : BridgeListener(ch)
    \/ RunImmediate

\* The system channel under a host that sends pauses with event ids.
PauseNext ==
    \/ HostStart
    \/ HostReceive
    \/ \E k \in 1..MaxHostSends : \E text \in SystemInputs(k) : HostSendSystem(k, text)
    \/ NodeLoadSystemChannel
    \/ NodeLoadReady
    \/ NodeLoadEventChannel
    \/ \E ch \in Channels : BridgeListener(ch)
    \/ RunImmediate
    \/ \E l \in PauseListenerIds : NodeAddPauseListener(l)
    \/ \E l \in PauseListenerIds : NodeRemovePauseListener(l)
    \/ \E i \in 1..MaxHostSends, l \in PauseListenerIds : NodeRelease(i, l)

\* The codec's two functions, one call of each.
CodecNext ==
    \/ CodecSerialize
    \/ CodecRoundTrip
    \/ CodecDeserialize

\* Both copies of the codec on the same arguments, and each side decoding
\* the other's text.
CodecPairNext ==
    \/ CodecSerialize
    \/ CodecDeserialize
    \/ HostCodecSerialize
    \/ HostCodecDeserialize
    \/ HostCodecDecode
    \/ NodeCodecDecode

\* The registry under further registrations, with system texts and texts
\* that are not envelopes arriving on both names.
RegistryNext ==
    \/ HostStart
    \/ NodeLoadSystemChannel
    \/ NodeLoadReady
    \/ NodeLoadEventChannel
    \/ \E name \in Channels, kind \in {"system", "event"} : NodeRegisterChannel(name, kind)
    \/ \E k \in 1..MaxHostSends : \E text \in SystemInputs(k) : HostSendSystem(k, text)
    \/ \E text \in RawTexts : HostSendRaw(text)
    \/ \E ch \in UnregisteredNames, text \in RawTexts : HostSendTo(ch, text)
    \/ \E ch \in ChannelNames : BridgeListener(ch)
    \/ RunImmediate

\* post() and send() on both sides, with the call's arguments.
PostNext ==
    \/ HostStart
    \/ NodeLoadSystemChannel
    \/ NodeLoadReady
    \/ NodeLoadEventChannel
    \/ CodecSerialize
    \/ HostPost(call.event, call.payload)
    \/ HostSend(call.payload)
    \/ NodePost(call.event, call.payload)
    \/ NodeSend(call.payload)

\* The start call's marshaling, step by step.
MarshalNext ==
    \/ MarshalSize
    \/ MarshalAlloc
    \/ MarshalFill
    \/ MarshalCallIntoNode

\* The host module with start calls on any module instance, and the load of
\* the embedded module.
StartNext ==
    \/ \E self \in ModuleInstances, fn \in StartFunctions : HostStartCall(self, fn)
    \/ HostEntersBackground
    \/ HostEntersForeground
    \/ HostReceive
    \/ NodeLoadSystemChannel
    \/ NodeLoadReady
    \/ NodeLoadEventChannel

Next == \/ StartNext
        \/ CodecPairNext
        \/ LifecycleNext \/ ChannelNext \/ PauseNext \/ CodecNext \/ PostNext
        \/ RegistryNext \/ MarshalNext

\* the whole bridge
Spec == BridgeStart /\ [][Next]_vars
\* the lifecycle path alone
SpecLifecycle == BridgeStart /\ [][LifecycleNext]_vars
\* Some listener calls release() on a lock it holds.
SomeRelease == \E i \in 1..MaxLifecycle, l \in PauseListenerIds : NodeRelease(i, l)
\* The listeners that hold pause locks go on calling release(): while a
\* release() call is outstanding, one is eventually made.
ReleaseFairness == WF_vars(SomeRelease)
\* the lifecycle path with listeners that release
SpecLifecycleFair == SpecLifecycle /\ ReleaseFairness
\* the event channel alone
SpecChannel == BridgeStart /\ [][ChannelNext]_vars
\* the host's end of the event channel alone
SpecHostChannel == BridgeStart /\ [][HostChannelNext]_vars
\* the system channel with tagged pauses
SpecPause == BridgeStart /\ [][PauseNext]_vars
\* the registry alone
SpecRegistry == BridgeStart /\ [][RegistryNext]_vars
\* post() and send() alone
SpecPost == PostStart /\ [][PostNext]_vars
\* the two copies of the codec side by side
SpecCodecPair == CodecStart /\ [][CodecPairNext]_vars
\* the codec alone
SpecCodec == CodecStart /\ [][CodecNext]_vars
\* the start calls
SpecStart == BridgeStart /\ [][StartNext]_vars
\* the marshaling alone
SpecMarshal == MarshalStart /\ [][MarshalNext]_vars
\* the attachment cache alone
SpecPool == PoolStart /\ [][PoolNext]_vars


(***************************************************************************)
(* Claims about the attachment pool.                                       *)
(***************************************************************************)

\* C1: in every reachable state 0 <= attached_thread_count <= MAX_ATTACHED_THREADS.
C1_CountWithinLimit ==
    /\ attached_thread_count >= 0
    /\ attached_thread_count <= MAX_ATTACHED_THREADS

\* The scenario of C2: every native thread has made exactly one call, all
\* calls have returned, no thread has exited and the attach primitive never
\* failed (every outcome is a success or a capacity refusal).
AllCalledOnce ==
    /\ external = {}
    /\ \A t \in Threads :
        /\ calls[t] = "once"
        /\ tpc[t] = "idle"
        /\ ret[t] \in {"ok", "refused"}

Succeeded == {t \in Threads : ret[t] = "ok"}
Refused == {t \in Threads : ret[t] = "refused"}

\* C2: when more distinct unattached threads than the limit call acquire()
\* concurrently and none exits, exactly `limit` calls succeed, the others are
\* refused, and peak == limit.
C2_ExactlyLimitSucceed ==
    AllCalledOnce =>
        /\ Cardinality(Succeeded) = MAX_ATTACHED_THREADS
        /\ Cardinality(Refused) = NumThreads - MAX_ATTACHED_THREADS
        /\ peak_attached_threads = MAX_ATTACHED_THREADS


\* C11: peak >= count in every reachable state, at the granularity of the
\* single atomic operations on the two counters.
C11_PeakAtLeastCount == peak_attached_threads >= attached_thread_count

\* The threads that have incremented the counter and not yet finished the
\* update of the peak.
PeakUpdatePending == {t \in Threads : tpc[t] \in {"load_peak", "cas"}}

\* C12: the peak never decreases, and whenever no attach is between its
\* increment and the end of its compare-and-retry loop the peak equals the
\* largest value the counter has ever held.
C12_PeakIsHistoricalMax ==
    /\ [](PeakUpdatePending = {} => peak_attached_threads = max_count_seen)
    /\ [][peak_attached_threads' >= peak_attached_threads]_vars

\* Two attaches raced for the peak, both finished, and a thread has exited
\* since: the peak stays above the counter.
C12_Witness ==
    /\ PeakUpdatePending = {}
    /\ peak_attached_threads = 2
    /\ attached_thread_count < peak_attached_threads
    /\ \E t \in Threads : tpc[t] = "exited"

\* C13: a detached thread whose capacity test finds the counter at the limit
\* is refused with no side effect: counter and peak unchanged, the thread not
\* attached, nothing cached for it, and rcv_message returns without the call
\* into the host.
C13_RefusalHasNoEffect ==
    [][\A t \in Threads :
         (/\ tpc[t] = "load_count"
          /\ tpc'[t] # "load_count"
          /\ attached_thread_count >= MAX_ATTACHED_THREADS)
         => /\ ret'[t] = "refused"
            /\ tpc'[t] = "idle"
            /\ tls_env'[t] = 0
            /\ ~tls_attached'[t]
            /\ ~vm_attached'[t]
            /\ UNCHANGED <<attached_thread_count, peak_attached_threads,
                           tls_env, tls_attached, vm_attached>>]_vars

\* A thread was refused with the counter at the limit.
C13_Witness ==
    \E t \in Threads :
        /\ ret[t] = "refused"
        /\ tpc[t] = "idle"
        /\ attached_thread_count = MAX_ATTACHED_THREADS
        /\ tls_env[t] = 0
        /\ ~vm_attached[t]

\* C14: the exit hook detaches the thread and decrements the counter by one
\* exactly when the cache attached the thread, leaves both alone for a thread
\* attached by someone else, and clears the cached handle and the flag in both
\* cases.
C14_ExitHookReleasesOwnAttachment ==
    [][\A t \in Threads :
         (tpc[t] = "idle" /\ tpc'[t] = "exited" /\ cleanup_marked[t])
         => /\ IF tls_attached[t]
                 THEN /\ attached_thread_count' = attached_thread_count - 1
                      /\ ~vm_attached'[t]
                 ELSE /\ attached_thread_count' = attached_thread_count
                      /\ vm_attached'[t] = vm_attached[t]
            /\ tls_env'[t] = 0
            /\ ~tls_attached'[t]]_vars

\* C15: get_jni_env on a thread the VM already knows caches the handle,
\* leaves counter and peak unchanged, succeeds whatever the counter is, and
\* records the thread as not attached by the cache, so that the cache never
\* detaches it.
C15_ExternalThreadNotCounted ==
    /\ [](\A t \in external : vm_attached[t] /\ ~tls_attached[t])
    /\ [][\A t \in Threads :
            (tpc[t] = "get_env" /\ tpc'[t] # "get_env" /\ vm_attached[t])
            => /\ tls_env'[t] = t
               /\ ~tls_attached'[t]
               /\ tpc'[t] = "call"
               /\ UNCHANGED <<attached_thread_count, peak_attached_threads>>]_vars

\* A thread attached by the host crossed with the counter at the limit and
\* has exited; the VM still knows it.
C15_Witness ==
    \E t \in external :
        /\ ret[t] = "ok"
        /\ tpc[t] = "exited"
        /\ vm_attached[t]
        /\ attached_thread_count = MAX_ATTACHED_THREADS

\* C16: a thread that holds a cached handle gets the same handle from every
\* further get_jni_env, with counter and peak unchanged, and never runs the
\* attach path again: its messages take at most one slot until it exits.
C16_FastPathReusesHandle ==
    /\ [](\A t \in Threads :
            /\ tls_env[t] \in {0, t}
            /\ tls_env[t] # 0 => tpc[t] \notin {"get_env", "load_count", "attach"})
    /\ [][\A t \in Threads :
            (tpc[t] = "tls_check" /\ tpc'[t] # "tls_check" /\ tls_env[t] # 0)
            => /\ tpc'[t] = "call"
               /\ tls_env'[t] = tls_env[t]
               /\ UNCHANGED <<attached_thread_count, peak_attached_threads>>]_vars

\* One thread attached by the cache has sent several messages and the
\* counter has never been above one.
C16_Witness ==
    \E t \in Threads :
        /\ calls[t] = "many"
        /\ ret[t] = "ok"
        /\ tpc[t] = "idle"
        /\ tls_attached[t]
        /\ max_count_seen = 1

LockIds == 1..Len(locks)

\* C3: a SystemEventLock created with N >= 1 locks invokes its callback
\* exactly once, during the N-th release() call and never before it, whichever
\* listeners make the calls and in whichever order.
C3_CallbackOnNthRelease ==
    \A i \in LockIds :
        locks[i].startingLocks >= 1 =>
            /\ locks[i].fired = (IF locks[i].releaseCalls >= locks[i].startingLocks THEN 1 ELSE 0)
            /\ locks[i].fired = 1 => locks[i].firedOnCall = locks[i].startingLocks

\* A lock of two listeners that has fired and was released again afterwards.
C3_Witness ==
    \E i \in LockIds :
        /\ locks[i].startingLocks = 2
        /\ locks[i].releaseCalls > locks[i].startingLocks
        /\ locks[i].fired = 1

\* C4: for a pause delivered to N listeners the release message is not sent
\* while at least one of the N listeners has not called release(), whatever
\* the other listeners do with the lock.
C4_NoReleaseWhileAListenerHolds ==
    \A i \in LockIds :
        (/\ locks[i].startingLocks >= 1
         /\ \E l \in locks[i].holders : locks[i].calls[l] = 0)
        => locks[i].fired = 0

LifecycleTexts == {PauseText, ResumeText}

\* C5: while the readiness flag is not set the host has forwarded no pause
\* and no resume, so none is queued for, scheduled in or emitted by the
\* embedded runtime.
C5_NoLifecycleBeforeReady ==
    ~nodeIsReadyForAppEvents =>
        /\ lifecycleSent = 0
        /\ \A i \in 1..Len(toNode[SYSTEM_CHANNEL]) :
              toNode[SYSTEM_CHANNEL][i].text \notin LifecycleTexts
        /\ \A i \in 1..Len(immediates) : immediates[i].event \notin LifecycleTexts
        /\ \A i \in 1..Len(nodeLog) : nodeLog[i].event \notin LifecycleTexts
        /\ locks = <<>>

\* The host went to the background before the readiness signal arrived,
\* with the embedded runtime loaded and a pause listener registered.
C5_Witness ==
    /\ ~nodeIsReadyForAppEvents
    /\ appState = "background"
    /\ nodeLoad = 3
    /\ pauseListeners # {}

\* The step in which the host receives the readiness signal.
ReceivesReady ==
    /\ toHost # <<>>
    /\ Head(toHost).ch = SYSTEM_CHANNEL
    /\ Head(toHost).text = ReadyText
    /\ toHost' = Tail(toHost)

\* C6: the readiness flag starts unset, is set only by the receipt of
\* `ready-for-app-events` on the system channel, and is never unset.
C6_ReadyOneWay ==
    /\ ~nodeIsReadyForAppEvents
    /\ [][/\ nodeIsReadyForAppEvents => nodeIsReadyForAppEvents'
          /\ (~nodeIsReadyForAppEvents /\ nodeIsReadyForAppEvents') => ReceivesReady]_vars

\* The flag is set and the host has since forwarded a pause and received the
\* release message that answers it.
C6_Witness ==
    /\ nodeIsReadyForAppEvents
    /\ lifecycleSent >= 1
    /\ hostReceived >= 2


\* The release() calls of a step that were made on a lock already released.
LateRelease(i) ==
    /\ locks[i].hasReleased
    /\ locks'[i].releaseCalls > locks[i].releaseCalls

\* C18: release() on a lock that has already fired is a no-op: the callback
\* does not run again, no release message is sent and the lock's state
\* (_locksAcquired, _hasReleased) is unchanged.
C18_ReleaseAfterFiringIsNoOp ==
    [][\A i \in LockIds :
         LateRelease(i)
         => /\ locks'[i].fired = locks[i].fired
            /\ locks'[i].locksAcquired = locks[i].locksAcquired
            /\ locks'[i].hasReleased
            /\ toHost' = toHost]_vars

\* A lock of one listener was released twice.
C18_Witness ==
    \E i \in LockIds :
        /\ locks[i].startingLocks = 1
        /\ locks[i].releaseCalls = 2
        /\ locks[i].locksAcquired = 0
        /\ locks[i].hasReleased

\* The step that creates a lock.
CreatesLock == Len(locks') = Len(locks) + 1
NewLock == locks'[Len(locks')]

\* C19: a pause processed with no pause listener creates a lock that fires
\* in its constructor: the release message is sent in the same step, once,
\* with no release() call.
C19_NoListenerReleasesAtOnce ==
    /\ [](\A i \in LockIds :
            locks[i].startingLocks = 0
            => /\ locks[i].hasReleased
               /\ locks[i].fired = 1
               /\ locks[i].releaseCalls = 0)
    /\ [][(CreatesLock /\ NewLock.startingLocks = 0)
          => toHost' = Append(toHost, [ch |-> SYSTEM_CHANNEL,
                                       text |-> NewLock.releaseMessage, n |-> 0])]_vars

\* A pause was processed with no listener and the host has received the
\* release message.
C19_Witness ==
    /\ \E i \in LockIds : locks[i].startingLocks = 0 /\ locks[i].fired = 1
    /\ hostReceived >= 2
    /\ toHost = <<>>

\* The answer to a pause text: the event id, if any, is carried over.
ExpectedRelease(type) ==
    IF Len(type) = 3 /\ type[2] = P("|")
      THEN <<W("release-pause-event"), P("|"), type[3]>>
      ELSE <<W("release-pause-event")>>

\* The step that runs the setImmediate task of a pause.
EmitsPause ==
    /\ immediates # <<>>
    /\ immediates' = Tail(immediates)
    /\ Head(immediates).k = "system"
    /\ Head(immediates).event \in {PauseText} \cup {PauseWithId(k) : k \in 1..MaxHostSends}

FiredBefore(i) == IF i <= Len(locks) THEN locks[i].fired ELSE 0

\* C20: `pause` is answered with `release-pause-event` and `pause|<eventId>`
\* with `release-pause-event|<eventId>`; every pause gets a lock of its own,
\* also while others are outstanding, and no event id is released twice.
C20_ReleaseCarriesEventId ==
    /\ [](\A i, j \in LockIds :
            /\ locks[i].fired <= 1
            /\ (i # j /\ Len(locks[i].releaseMessage) > 1)
               => locks[i].releaseMessage # locks[j].releaseMessage)
    /\ [][EmitsPause
          => /\ CreatesLock
             /\ NewLock.releaseMessage = ExpectedRelease(Head(immediates).event)]_vars
    /\ [][\A i \in 1..Len(locks') :
            locks'[i].fired > FiredBefore(i)
            => toHost' = Append(toHost, [ch |-> SYSTEM_CHANNEL,
                                         text |-> locks'[i].releaseMessage, n |-> 0])]_vars
    /\ [][(Len(toHost') > Len(toHost) /\ toHost'[Len(toHost')].text # ReadyText)
          => \E i \in 1..Len(locks') :
                /\ locks'[i].fired > FiredBefore(i)
                /\ toHost'[Len(toHost')].text = locks'[i].releaseMessage]_vars

\* Two tagged pauses are outstanding at once and the second has been released
\* before the first.
C20_Witness ==
    /\ Len(locks) = 2
    /\ locks[1].releaseMessage = <<W("release-pause-event"), P("|"), N(1)>>
    /\ locks[2].releaseMessage = <<W("release-pause-event"), P("|"), N(2)>>
    /\ locks[1].startingLocks >= 1
    /\ locks[2].startingLocks >= 1
    /\ locks[1].fired = 0
    /\ locks[2].fired = 1

ReceivesResume ==
    /\ BridgeListener(SYSTEM_CHANNEL)
    /\ Head(toNode[SYSTEM_CHANNEL]).text = ResumeText
RunsResume ==
    /\ RunImmediate
    /\ Head(immediates).k = "system"
    /\ Head(immediates).event = ResumeText

\* C22: "resume" has no barrier.  The step that receives "resume" on the
\* system channel only queues a task (nothing is emitted yet); the step that
\* runs the task emits "resume" to the local listeners; neither step creates
\* a lock or sends anything to the host.
C22_ResumeHasNoBarrier ==
    /\ [][ReceivesResume =>
            /\ Len(immediates') = Len(immediates) + 1
            /\ immediates'[Len(immediates')].event = ResumeText
            /\ UNCHANGED <<nodeLog, locks, toHost>>]_vars
    /\ [][RunsResume =>
            /\ Len(nodeLog') = Len(nodeLog) + 1
            /\ nodeLog'[Len(nodeLog')].event = ResumeText
            /\ nodeLog'[Len(nodeLog')].payload = <<>>
            /\ UNCHANGED <<locks, toHost>>]_vars

\* "resume" and "pause" have both been emitted to the local listeners
C22_Witness ==
    /\ \E i \in 1..Len(nodeLog) :
           nodeLog[i].ch = SYSTEM_CHANNEL /\ nodeLog[i].event = ResumeText
    /\ \E i \in 1..Len(nodeLog) :
           nodeLog[i].ch = SYSTEM_CHANNEL /\ nodeLog[i].event = PauseText

\* the readiness signal has left the embedded side
ReadySent ==
    \/ \E i \in 1..Len(toHost) : toHost[i].ch = SYSTEM_CHANNEL /\ toHost[i].text = ReadyText
    \/ nodeIsReadyForAppEvents

\* C23: the readiness signal is sent only once bridge initialization is
\* complete: whenever it has been sent, both channels created at
\* initialization, _SYSTEM_ and _EVENTS_, are registered.
C23_ReadyAfterBridgeInit ==
    ReadySent => Channels \subseteq DOMAIN channels

(***************************************************************************)
(* Claims about the event channel.                                         *)
(***************************************************************************)

\* C7: a received message is never emitted to local listeners inside the
\* call that delivered it (bridgeListener / processData on the embedded side,
\* the subscription callback / #processData on the host side); the emission
\* happens in a later turn.
C7_EmissionDeferred ==
    [][/\ nodeDelivered' # nodeDelivered => nodeLog' = nodeLog
       /\ hostProcessed' # hostProcessed => hostLog' = hostLog]_vars

\* The emissions of a log are in the order in which their messages were
\* sent on the channel.
InOrder(log) ==
    \A i, j \in 1..Len(log) :
        (i < j /\ log[i].ch = log[j].ch) => log[i].n < log[j].n

\* C8: two messages received on the same channel are observed by the
\* listeners in the order received, on the embedded side and on the host
\* side, the host's hand-off to the event emitter included.
C8_InOrderPerChannel ==
    /\ InOrder(nodeLog)
    /\ InOrder(sendEventLog)
    /\ InOrder(hostLog)

\* C9: a decode failure on a received message is caught: nothing is emitted
\* for the message and no error leaves the receiving entry point, on the host
\* side and on the embedded side.
C9_DecodeFailureCaught ==
    /\ nodeThrown = 0
    /\ hostProcessed = Len(hostLog) + hostWarned

Registered == {h \in HostHandles : hostListeners[h] = "added"}
NoDoubleRemove == \A h \in HostHandles : removeCalls[h] <= 1
Delta(from, to) == IF Cardinality(Registered) = from /\ Cardinality(Registered') = to THEN 1 ELSE 0

\* C10: as long as no subscription is removed twice, native delivery is
\* activated exactly in the steps that take the number of listeners from 0 to
\* 1 and deactivated exactly in the steps that take it from 1 to 0, so that it
\* is active exactly while there is a listener.
C10_ActivationOnFirstAndLast ==
    /\ [](NoDoubleRemove =>
            /\ subscription = (Registered # {})
            /\ activations - deactivations = (IF Registered # {} THEN 1 ELSE 0))
    /\ [][NoDoubleRemove' =>
            /\ activations' = activations + Delta(0, 1)
            /\ deactivations' = deactivations + Delta(1, 0)]_vars

\* Every listener was added, then each was removed once: one activation and
\* one deactivation.
C10_Witness ==
    /\ \A h \in HostHandles : hostListeners[h] = "removed" /\ removeCalls[h] = 1
    /\ activations = 1
    /\ deactivations = 1


(***************************************************************************)
(* Claims about the message codec.                                         *)
(***************************************************************************)

\* the call's event is a non-empty string
ValidEvent == call.event.t = "str" /\ call.event.s # ""

\* C24: for a non-empty string event and a payload of values JSON can
\* represent (of any arity, also none), serialize succeeds, and deserialize
\* of its text succeeds and returns the event and the payload, item for item
\* in the order given.
C24_RoundTrip ==
    (ValidEvent /\ call.payload \in PlainPayloads) =>
        /\ encoded # NotYet => encoded.ok
        /\ decoded # NotYet =>
              /\ decoded.ok
              /\ decoded.event = call.event.s
              /\ decoded.payload = call.payload

\* a payload of three items has made the round trip
C24_Witness ==
    /\ ValidEvent
    /\ Len(call.payload) = 3
    /\ decoded # NotYet
    /\ decoded.ok

\* the call's arguments are posted on the host / on the embedded side
HostPosts == HostPost(call.event, call.payload)
NodePosts == NodePost(call.event, call.payload)

\* C25: with an event that is the empty string or not a string, serialize
\* fails with the event-name error whatever the payload is (also one that
\* cannot be encoded), and post() on either side raises that error to its
\* caller and sends nothing on the bridge.
C25_BadEventRejected ==
    /\ [](~ValidEvent /\ encoded # NotYet =>
             /\ ~encoded.ok
             /\ encoded.err = "EmptyEventName")
    /\ [][~ValidEvent /\ (HostPosts \/ NodePosts) =>
             /\ raised' = "EmptyEventName"
             /\ UNCHANGED wireVars]_vars

\* a non-string event with a cyclic payload was refused by serialize and by post()
C25_Witness ==
    /\ call.event.t # "str"
    /\ call.payload \in CyclicPayloads
    /\ encoded # NotYet
    /\ encoded.err = "EmptyEventName"
    /\ raised = "EmptyEventName"
    /\ nodeLoad = 3

\* the keys of a JSON value (a value that is not an object has none, an
\* array has none of the envelope's) and the value under a key
KeysOf(v) == IF v.t = "obj" THEN {v.fields[i].key : i \in 1..Len(v.fields)} ELSE {}
FieldOf(v, key) == v.fields[CHOOSE i \in 1..Len(v.fields) : v.fields[i].key = key].val

\* the error the message is to be refused with, or "none" for an envelope
ExpectedError(m) ==
    IF m.kind = "nontext" THEN "NotAString"
    ELSE IF m.kind = "badjson" THEN "ParseFailure"
    ELSE IF m.value.t \in {"null", "str", "num", "bool"} THEN "NotAnObject"
    ELSE IF ~({"event", "payload"} \subseteq KeysOf(m.value)) THEN "MissingFields"
    ELSE IF FieldOf(m.value, "event").t # "str" THEN "EventNotString"
    ELSE IF FieldOf(m.value, "payload").t # "arr" THEN "PayloadNotArray"
    ELSE "none"

\* C26: deserialize refuses every invalid input with the error of its kind
\* and returns nothing for it: a non-string with NotAString, a text that is
\* not JSON with ParseFailure, JSON that is null or not an object (a string,
\* a number, a boolean) with NotAnObject, an object without `event` or
\* without `payload` (an array is such an object) with MissingFields, an
\* `event` that is not a string with EventNotString, a `payload` that is not
\* an array with PayloadNotArray; it returns a result for the envelopes only.
C26_InvalidInputClassified ==
    parsed # NotYet =>
        IF ExpectedError(call.message) = "none"
          THEN parsed.ok
          ELSE /\ ~parsed.ok
               /\ parsed.name = "MessageCodecError"
               /\ parsed.err = ExpectedError(call.message)

\* an envelope whose payload is an object was refused with PayloadNotArray
C26_Witness ==
    /\ call.message.kind = "json"
    /\ call.message.value = Obj2("event", JStr("x"), "payload", Obj1("length", JNum(0)))
    /\ parsed # NotYet
    /\ ~parsed.ok
    /\ parsed.err = "PayloadNotArray"

WrappingErrors == {"SerializationFailure", "ParseFailure"}
StructuralErrors == {"EmptyEventName", "NotAString", "NotAnObject", "MissingFields",
                     "EventNotString", "PayloadNotArray"}
\* the errors the codec calls have thrown so far
Thrown == {r \in {encoded, decoded, parsed} : r # NotYet /\ ~r.ok}

\* C27: every error the codec throws is a MessageCodecError of one of the
\* eight kinds; SerializationFailure (thrown exactly for a valid event with
\* a payload that cannot be encoded) and ParseFailure (thrown exactly for a
\* text that is not JSON) carry the underlying error as originalError; the
\* six structural errors carry none, and an input refused for its structure
\* is never reported as ParseFailure.
C27_WrappedErrorPattern ==
    /\ \A r \in Thrown :
          /\ r.name = "MessageCodecError"
          /\ r.err \in WrappingErrors \cup StructuralErrors
          /\ r.originalError <=> r.err \in WrappingErrors
    /\ encoded # NotYet =>
          ((~encoded.ok /\ encoded.err = "SerializationFailure")
              <=> (ValidEvent /\ call.payload \in CyclicPayloads))
    /\ parsed # NotYet =>
          ((~parsed.ok /\ parsed.err = "ParseFailure") <=> call.message.kind = "badjson")

\* both wrapping errors have been thrown, each with its cause
C27_Witness ==
    /\ encoded # NotYet /\ ~encoded.ok
    /\ encoded.err = "SerializationFailure" /\ encoded.originalError
    /\ parsed # NotYet /\ ~parsed.ok
    /\ parsed.err = "ParseFailure" /\ parsed.originalError


(***************************************************************************)
(* Claims about post() and send().                                         *)
(***************************************************************************)

\* the wire text {"event":"foo","payload":["a","b"]}
FooABText ==
    <<P("{"), S("event"), P(":"), S("foo"), P(","),
      S("payload"), P(":"), P("["), S("a"), P(","), S("b"), P("]"), P("}")>>

\* the envelope of an event and its arguments: `event` first, `payload`,
\* the arguments in call order, second
EnvelopeText(event, args) ==
    <<P("{"), S("event"), P(":"), S(event), P(","), S("payload"), P(":"), P("[")>>
        \o StringifyItems(args) \o <<P("]"), P("}")>>

\* exactly one text joins the host-to-embedded queue of _EVENTS_ / the
\* embedded-to-host queue under the name _EVENTS_, and nothing else moves
OneSendToNode(text) ==
    /\ toNode' = [toNode EXCEPT ![EVENT_CHANNEL] = Append(@, [text |-> text, n |-> sentToNode + 1])]
    /\ toHost' = toHost
OneSendToHost(text) ==
    /\ toHost' = Append(toHost, [ch |-> EVENT_CHANNEL, text |-> text, n |-> sentToHost + 1])
    /\ toNode' = toNode

HostSends == HostSend(call.payload)
NodeSends == NodeSend(call.payload)

\* C29: send(...args) does what post("message", ...args) does, on the host
\* and on the embedded side: with arguments that can be encoded, one bridge
\* send on _EVENTS_ of the envelope of "message" and the arguments; with
\* arguments that cannot, the serialization error raised to the caller and
\* nothing sent; and where the call's event is "message", a step is a send()
\* exactly if it is a post() of the same arguments.
C29_SendIsPostMessage ==
    /\ [][HostSends =>
             IF call.payload \in PlainPayloads
               THEN /\ OneSendToNode(EnvelopeText("message", call.payload))
                    /\ raised' = NothingRaised
               ELSE /\ raised' = "SerializationFailure"
                    /\ UNCHANGED wireVars]_vars
    /\ [][NodeSends =>
             IF call.payload \in PlainPayloads
               THEN /\ OneSendToHost(EnvelopeText("message", call.payload))
                    /\ raised' = NothingRaised
               ELSE /\ raised' = "SerializationFailure"
                    /\ UNCHANGED wireVars]_vars
    /\ [][call.event = JStr("message") =>
             /\ HostSends <=> HostPosts
             /\ NodeSends <=> NodePosts]_vars

\* send("a", "b") has been called on both sides by an application that posts
\* under another event name
C29_Witness ==
    /\ call.event = JStr("foo")
    /\ call.payload = <<JStr("a"), JStr("b")>>
    /\ \E i \in 1..Len(toNode[EVENT_CHANNEL]) :
           toNode[EVENT_CHANNEL][i].text = EnvelopeText("message", call.payload)
    /\ \E i \in 1..Len(toHost) :
           toHost[i].ch = EVENT_CHANNEL /\ toHost[i].text = EnvelopeText("message", call.payload)


(***************************************************************************)
(* Claims about the channel registry.                                      *)
(***************************************************************************)

\* the channel objects registered under a name so far, and the latest one
RegisteredUnder(name) == {i \in 1..Len(created) : created[i].name = name}
LastRegistered(name) ==
    CHOOSE i \in RegisteredUnder(name) : \A j \in RegisteredUnder(name) : j <= i

\* a registration step, and a step that hands a text to a registered name
Registers == \E name \in Channels, kind \in {"system", "event"} : NodeRegisterChannel(name, kind)
Dispatches(ch) == BridgeListener(ch) /\ ch \in DOMAIN channels

\* C30: registration is last-write-wins.  The registry holds, for every
\* name registered so far, the channel registered last under it; a text for
\* a name is processed by that channel (as a system text if it is a system
\* channel, as an envelope if it is an event channel: queued by that
\* channel, or refused by its decoder); a registration raises no error and
\* changes the entry of no other name.
C30_LastRegistrationWins ==
    /\ [](/\ DOMAIN channels = {created[i].name : i \in 1..Len(created)}
          /\ \A name \in DOMAIN channels : channels[name] = LastRegistered(name))
    /\ [][\A ch \in Channels : Dispatches(ch) =>
             LET target == created[LastRegistered(ch)]
                 queued == Len(immediates') = Len(immediates) + 1
                 task == immediates'[Len(immediates')]
             IN  IF target.kind = "system"
                   THEN /\ queued
                        /\ task.k = "system"
                        /\ task.obj = LastRegistered(ch)
                        /\ nodeThrown' = nodeThrown
                   ELSE \/ /\ queued
                           /\ task.k = "emit"
                           /\ task.obj = LastRegistered(ch)
                           /\ nodeThrown' = nodeThrown
                        \/ /\ immediates' = immediates
                           /\ nodeThrown' = nodeThrown + 1]_vars
    /\ [][Registers =>
             /\ nodeThrown' = nodeThrown
             /\ Len(created') = Len(created) + 1
             /\ \A c \in DOMAIN channels :
                    c # created'[Len(created')].name => channels'[c] = channels[c]]_vars

\* both names were registered a second time, _SYSTEM_ with an event channel,
\* and a text for each was processed by the later channel
C30_Witness ==
    /\ Len(created) = 4
    /\ Cardinality(RegisteredUnder(SYSTEM_CHANNEL)) = 2
    /\ created[LastRegistered(SYSTEM_CHANNEL)].kind = "event"
    /\ created[LastRegistered(EVENT_CHANNEL)].kind = "system"
    /\ nodeThrown = 1
    /\ \E i \in 1..Len(immediates) :
           immediates[i].obj = LastRegistered(EVENT_CHANNEL) /\ immediates[i].obj > 2

\* a text handed to bridgeListener under a name the registry does not hold
ArrivesUnregistered(ch) == BridgeListener(ch) /\ ~hasOwnProperty(channels, ch)

\* C31: a text that arrives for a channel name that is not registered is
\* dropped with a diagnostic that names the channel: it leaves the queue, no
\* channel queues or emits it, no error leaves bridgeListener or reaches the
\* sender, and the registry and the channel objects are unchanged.
C31_UnregisteredDropped ==
    [][\A ch \in ChannelNames : ArrivesUnregistered(ch) =>
          /\ nodeErrors' = Append(nodeErrors, ch)
          /\ toNode'[ch] = Tail(toNode[ch])
          /\ immediates' = immediates
          /\ nodeLog' = nodeLog
          /\ nodeThrown' = nodeThrown
          /\ raised' = raised
          /\ channels' = channels
          /\ created' = created]_vars

\* a text sent on an unregistered name was handed over and reported, with
\* both of the module's channels registered
C31_Witness ==
    /\ nodeLoad = 3
    /\ nodeErrors = <<"_OTHER_">>
    /\ toNode["_OTHER_"] = <<>>
    /\ nodeDelivered >= 1


(***************************************************************************)
(* Claims about the start call's argument marshaling.                      *)
(***************************************************************************)

\* the offset of argument i in the buffer: the sum over j < i of len_j + 1
RECURSIVE OffsetOf(_, _)
OffsetOf(args, i) == IF i <= 1 THEN 0 ELSE OffsetOf(args, i - 1) + Len(args[i - 1]) + 1

\* C32: when the runtime's entry point is called, the buffer has
\* sum(len_i + 1) bytes, argument i's bytes lie in order at offset
\* sum over j < i of (len_j + 1) and are followed by a zero byte, argv[i] is
\* that offset, and the entry point receives argc = the list's length and
\* reads argument i at argv[i], empty arguments included.
C32_ArgumentsMarshaled ==
    marshal_pc = "started" =>
        /\ c_arguments_size = OffsetOf(string_refs, Len(string_refs) + 1)
        /\ Len(args_buffer) = c_arguments_size
        /\ Len(argv) = Len(string_refs)
        /\ node_args.argc = Len(string_refs)
        /\ \A i \in 1..Len(string_refs) :
              /\ argv[i] = OffsetOf(string_refs, i)
              /\ \A k \in 1..Len(string_refs[i]) :
                     args_buffer[argv[i] + k] = string_refs[i][k]
              /\ args_buffer[argv[i] + Len(string_refs[i]) + 1] = 0
              /\ node_args.argv[i] = string_refs[i]

\* three arguments were marshaled, the second one empty, the others not
C32_Witness ==
    /\ marshal_pc = "started"
    /\ Len(string_refs) = 3
    /\ string_refs[1] = <<97>>
    /\ string_refs[2] = <<>>
    /\ string_refs[3] = <<98>>
    /\ args_buffer = <<97, 0, 0, 98, 0>>
    /\ node_args.argc = 3


(***************************************************************************)
(* Further claims about the host's event channel.                          *)
(***************************************************************************)

\* C33: after any addListener calls and any remove() calls on the returned
\* subscriptions, also repeated ones on the same subscription, the listener
\* count is not negative and is the number of listeners registered, and the
\* native subscription is active exactly while a listener is registered.
C33_ListenerCountMatches ==
    /\ listenerCount >= 0
    /\ listenerCount = Cardinality(Registered)
    /\ subscription = (Registered # {})


(***************************************************************************)
(* Further claims about the pause locks.                                   *)
(***************************************************************************)

\* the pause emissions made so far, as positions in the log of emissions
PauseEmissions == {i \in 1..Len(nodeLog) : nodeLog[i].event = PauseText}

\* C34: every pause emission creates one lock whose starting count is the
\* number of "pause" listeners the channel has when the event is emitted;
\* exactly those listeners are handed that lock, each with no release() call
\* made yet, whatever the listeners were when the pause text was received.
C34_LockCountsListenersAtEmission ==
    [][EmitsPause =>
          /\ Len(locks') = Len(locks) + 1
          /\ Len(nodeLog') = Len(nodeLog) + 1
          /\ nodeLog'[Len(nodeLog')].event = PauseText
          /\ LET eventLock == locks'[Len(locks')] IN
                /\ eventLock.startingLocks = Cardinality(pauseListeners)
                /\ eventLock.holders = pauseListeners
                /\ \A l \in eventLock.holders : eventLock.calls[l] = 0
                /\ eventLock.releaseCalls = 0]_vars

\* A pause was emitted and its lock counts two listeners, while the resume
\* text received after the pause text is still queued and was received with
\* no listener registered: both listeners were added between the receipt of
\* the pause text and its emission.
C34_Witness ==
    /\ Len(locks) = 1
    /\ PauseEmissions # {}
    /\ locks[1].startingLocks = 2
    /\ locks[1].holders = {1, 2}
    /\ Len(immediates) = 1
    /\ immediates[1].event = ResumeText
    /\ immediates[1].queuedWith = 0


(***************************************************************************)
(* Further claims about the attachment pool.                               *)
(***************************************************************************)

\* C35: attachments do not leak.  Once every thread has exited (and so every
\* thread the cache attached), the counter is back to 0 and no thread that
\* the cache attached is still attached to the VM, whether the threads exit
\* before or after the start call has returned.
C35_NoAttachmentLeak ==
    (\A t \in Threads : tpc[t] = "exited") =>
        /\ attached_thread_count = 0
        /\ \A t \in Threads \ external : ~vm_attached[t]


(***************************************************************************)
(* Claims about the routing of the embedded side's messages on the host.   *)
(***************************************************************************)

\* C36: a message the embedded side sends on _SYSTEM_ is consumed by the
\* host module: it is not handed to the application's event emitter and no
\* listener sees it.  A message on any other channel is handed over with its
\* channel name and text unchanged, and the host EventChannel emits a message
\* only if the message's channel name is the channel's own.
C36_SystemConsumedOthersForwarded ==
    /\ [][HostReceive =>
            LET m == Head(toHost) IN
            IF m.ch = SYSTEM_CHANNEL
              THEN UNCHANGED <<handoff, sendEventLog, hostLog, hostProcessed>>
              ELSE /\ handoff' = Append(handoff, m)
                   /\ UNCHANGED <<hostLog, hostProcessed>>]_vars
    /\ [](\A i \in 1..Len(handoff) : handoff[i].ch # SYSTEM_CHANNEL)
    /\ [](\A i \in 1..Len(sendEventLog) : sendEventLog[i].ch # SYSTEM_CHANNEL)
    /\ [][hostProcessed' # hostProcessed =>
            \E i \in 1..Len(handoff) :
                /\ handoff[i].ch = EVENT_CHANNEL
                /\ handoff' = RemoveAt(handoff, i)]_vars
    /\ [](\A i \in 1..Len(hostLog) : hostLog[i].ch = EVENT_CHANNEL)

\* With a listener registered, the readiness signal on _SYSTEM_ was consumed,
\* an envelope on another name reached the event emitter and was not emitted
\* by the channel, and an envelope on _EVENTS_ was emitted.
C36_Witness ==
    /\ subscription
    /\ nodeIsReadyForAppEvents
    /\ hostReceived = 3
    /\ \E i \in 1..Len(sendEventLog) : sendEventLog[i].ch \in UnregisteredNames
    /\ \E i \in 1..Len(sendEventLog) : sendEventLog[i].ch = EVENT_CHANNEL
    /\ Len(hostLog) = 1
    /\ hostProcessed = 1


(***************************************************************************)
(* Claims about the start calls.                                           *)
(***************************************************************************)

\* some start call is made
StartCalled(self, fn) == HostStartCall(self, fn)

\* C37: whatever start calls are made, on whatever module instance, the
\* runtime's entry point startNodeWithArguments is launched at most once;
\* the first start call stores its instance and launches it, every later one
\* only stores its instance.
C37_StartedAtMostOnce ==
    /\ [](Len(nodeStarts) <= 1)
    /\ [](startedNodeAlready = (Len(nodeStarts) = 1))
    /\ [][\A self \in ModuleInstances, fn \in StartFunctions :
            StartCalled(self, fn) =>
                /\ instance' = self
                /\ IF startedNodeAlready
                     THEN UNCHANGED <<startedNodeAlready, nodeStarts, nodeIsReadyForAppEvents,
                                      appState, lifecycleSent, handoff, wireVars, nodeVars>>
                     ELSE /\ nodeStarts' = <<[by |-> self, with |-> fn]>>
                          /\ startedNodeAlready']_vars

\* the runtime was started by startNodeWithScript on one module instance and
\* a later start call on another instance was stored and started nothing
C37_Witness ==
    /\ nodeStarts = <<[by |-> 1, with |-> "startNodeWithScript"]>>
    /\ instance = 2
    /\ nodeLoad = 3


(***************************************************************************)
(* Claims about messages that arrive while the runtime is torn down.       *)
(***************************************************************************)

\* rcv_message on thread t reaches CallStaticVoidMethod
CallsIntoHost(t) == tpc[t] = "call" /\ tpc'[t] = "idle"

\* C38: however a message arriving on a native thread interleaves with the
\* teardown at the end of startNodeWithArguments, rcv_message never calls
\* into the host through the cached class/method reference after it has been
\* released, and a message that arrives after the teardown is dropped at the
\* validity check.
C38_NoCallThroughReleasedReference ==
    [][\A t \in Threads :
          /\ CallsIntoHost(t) => cached_class
          /\ (RcvMessage(t) /\ runtime \in {"tearing", "exited"}) => ret'[t] = "invalid"]_vars


(***************************************************************************)
(* Further claims about the message codec.                                 *)
(***************************************************************************)

\* the checks of deserialize in their order, by the error each one reports
CheckOrder == <<"NotAString", "ParseFailure", "NotAnObject", "MissingFields",
                "EventNotString", "PayloadNotArray">>

\* Check i, taken by itself, refuses the message: it is not a text, is not
\* the text of a JSON value, is not the text of an object, lacks one of the
\* two keys, has no string under `event`, has no array under `payload`.
FailsCheck(m, i) ==
    CASE i = 1 -> m.kind = "nontext"
      [] i = 2 -> m.kind # "json"
      [] i = 3 -> m.kind # "json" \/ m.value.t \notin {"obj", "arr"}
      [] i = 4 -> m.kind # "json" \/ ~({"event", "payload"} \subseteq KeysOf(m.value))
      [] i = 5 -> \/ m.kind # "json"
                  \/ "event" \notin KeysOf(m.value)
                  \/ FieldOf(m.value, "event").t # "str"
      [] i = 6 -> \/ m.kind # "json"
                  \/ "payload" \notin KeysOf(m.value)
                  \/ FieldOf(m.value, "payload").t # "arr"

FailingChecks(m) == {i \in 1..Len(CheckOrder) : FailsCheck(m, i)}
FirstFailing(m) == CHOOSE i \in FailingChecks(m) : \A j \in FailingChecks(m) : i <= j

\* C39: deserialize reports the first check that fails, in the order
\* NotAString, ParseFailure, NotAnObject, MissingFields, EventNotString,
\* PayloadNotArray, whatever later checks would fail too; it succeeds exactly
\* when no check fails, and then returns the string under `event` and the
\* items under `payload` and nothing else of the input.
C39_FirstFailingCheckReported ==
    parsed # NotYet =>
        IF FailingChecks(call.message) = {}
          THEN parsed = [ok |-> TRUE,
                         event |-> FieldOf(call.message.value, "event").s,
                         payload |-> FieldOf(call.message.value, "payload").items]
          ELSE /\ ~parsed.ok
               /\ parsed.err = CheckOrder[FirstFailing(call.message)]

\* an object whose event is not a string and whose payload is not an array
\* fails two checks and was refused with the earlier one
C39_Witness ==
    /\ call.message.kind = "json"
    /\ call.message.value = Obj2("event", JNum(1), "payload", JNum(1))
    /\ FailingChecks(call.message) = {5, 6}
    /\ parsed # NotYet
    /\ ~parsed.ok
    /\ parsed.err = "EventNotString"


(***************************************************************************)
(* Claims about the two copies of the codec.                               *)
(***************************************************************************)

\* C40: the host's codec and the embedded side's codec are the same
\* function.  On the same arguments both serialize calls return the same
\* text or throw the same error, on the same message both deserialize calls
\* return the same envelope or throw the same error, and a text either side
\* produces is decoded by the other side to the event and payload encoded.
C40_CodecsAgree ==
    /\ (encoded # NotYet /\ hostEncoded # NotYet) => hostEncoded = encoded
    /\ (parsed # NotYet /\ hostParsed # NotYet) => hostParsed = parsed
    /\ hostDecoded # NotYet =>
          hostDecoded = [ok |-> TRUE, event |-> call.event.s, payload |-> call.payload]
    /\ nodeDecoded # NotYet =>
          nodeDecoded = [ok |-> TRUE, event |-> call.event.s, payload |-> call.payload]

\* both sides have encoded the same call and refused the same JSON array,
\* and each has decoded the other's text
C40_Witness ==
    /\ encoded # NotYet /\ encoded.ok
    /\ hostEncoded # NotYet /\ hostEncoded.ok
    /\ call.message.kind = "json"
    /\ call.message.value.t = "arr"
    /\ parsed # NotYet /\ ~parsed.ok
    /\ hostParsed # NotYet /\ ~hostParsed.ok
    /\ hostDecoded # NotYet
    /\ nodeDecoded # NotYet
    /\ Len(call.payload) = 3

====
